---- MODULE Spec2Model ----
(***************************************************************************)
(* Subtitle generator: the task registry (processing_status), the two      *)
(* background pipelines process_video_task / process_youtube_task, the     *)
(* retry loop of YouTubeDownloader.download_video and the transform stages *)
(* of VideoProcessor.generate_subtitles_with_video.                        *)
(*                                                                         *)
(* The pipelines are `async def` coroutines without any await: once the    *)
(* event loop has started one it runs to its end before any other handler  *)
(* or task runs.  `loop` holds the task that owns the event loop thread.   *)
(***************************************************************************)
EXTENDS Integers, Sequences, FiniteSets, TLC

\* ------------------------------------------------------------------ bounds
MaxTasks == 1
MaxSegments == 2
MaxJobs == 2
\* URLs in the list given to the command line downloader
MaxUrls == 2

TaskIds == 1..MaxTasks

\* ------------------------------------------------------- program constants
\* max_retries=3 passed by both process_youtube_task bodies
max_retries == 3
\* delay = 2 before the retry loop
InitialDelay == 2
\* per_video_timeout default
per_video_timeout == 1800

\* ------------------------------------------------------------- input sets
Apps == {"main", "test_server"}
Languages == {"en", "fr"}
\* a URL task never reaches a statement that reads its language
UrlLanguages == {"en"}
FileNames == {"a.mp4", "notes.txt"}
Urls == {"youtu.be/x", "example.com/v"}
\* an uploaded file's bytes: their number and what the first bytes look like
\* ("ftyp": an MP4 ftyp box, "text": mostly printable characters)
Contents == {[size |-> 100, head |-> "ftyp"], [size |-> 2048, head |-> "text"],
             [size |-> 2048, head |-> "ftyp"]}

VARIABLES
    app,                \* which FastAPI application this process serves
    processing_status,  \* the registry: task id -> record (a Python dict)
    fs,                 \* the file system: existing path -> size class (0 empty, 1 data)
    args,               \* arguments bound by background_tasks.add_task
    pc,                 \* position of each background task
    loc,                \* local variables of each background task
    loop,               \* task running on the event loop thread, 0 when idle
    http,               \* the response of the HTTP handler that has just returned
    srt,                \* a run of the subtitle text functions: inputs, position, text
    names,              \* the paths named for the files of concurrently submitted jobs
    sweep,              \* jobs run one after the other and the upload directory they share
    hook,               \* a call of safe_progress_hook: the progress dictionary, position
    cli,                \* a run of main() of the command line downloader
    client              \* a run of process_video_gradio against the server

pipeline_vars == <<app, processing_status, fs, args, pc, loc, loop, http>>
other_vars == <<sweep, hook, cli, client>>
vars == <<app, processing_status, fs, args, pc, loc, loop, http, srt, names, sweep, hook, cli, client>>

\* ------------------------------------------------------------------ paths
\* A path is a record; NoPath stands for Python's None.  hex is the uuid4 fragment of
\* a name that has one (a value no other call draws), 0 otherwise.
NoPath == [dir |-> "", key |-> 0, name |-> "", suffix |-> "", hex |-> 0]
UPLOAD_DIR == "uploads"
OUTPUT_DIR == "outputs"

\* os.path.join(UPLOAD_DIR, f"{task_id}_{file.filename}")
UploadPath(t, fname) == [dir |-> UPLOAD_DIR, key |-> t, name |-> fname, suffix |-> "", hex |-> 0]
\* outtmpl: os.path.join(self.download_dir, "%(title)s.%(ext)s"): keyed by the title alone
DownloadPath(url) == [dir |-> UPLOAD_DIR, key |-> 0, name |-> url, suffix |-> "", hex |-> 0]
\* tempfile.NamedTemporaryFile(suffix='.wav', delete=False): a fresh name per call
AudioPath(t) == [dir |-> "tmp", key |-> t, name |-> "audio", suffix |-> ".wav", hex |-> 0]
\* f"{video_name}_{uuid.uuid4().hex[:8]}.srt" in output_dir
SrtPath(input, hex) ==
    [dir |-> OUTPUT_DIR, key |-> input.key, name |-> input.name, suffix |-> ".srt", hex |-> hex]
\* f"{video_name}_with_subtitles{video_ext}" in output_dir
MuxPath(input) == [dir |-> OUTPUT_DIR, key |-> input.key, name |-> input.name, suffix |-> "_with_subtitles", hex |-> 0]

exists(p) == p \in DOMAIN fs
\* the file system after os.unlink(p)
Unlinked(f, p) == [q \in (DOMAIN f) \ {p} |-> f[q]]
\* the file system after writing a file p of size class s
Written(f, p, s) == (p :> s) @@ f
\* the file system after shutil.rmtree(dir)
RmTree(f, dir) == [q \in {x \in DOMAIN f : x.dir # dir} |-> f[q]]

\* --------------------------------------------------------------- registry
\* dict.update(upd): keys of upd win, other keys are kept
Update(rec, upd) == upd @@ rec

StatusOf(t) == processing_status[t].status
Terminal == {"completed", "error"}

\* ---------------------------------------------------------- HTTP responses
\* What a handler returns: the status code, the JSON body (HTTPException(detail=...)
\* is sent as {"detail": ...}) and, for a FileResponse, the file and its filename.
\* http holds the response of the step just taken; any other step finds it sent.
\* the submitted form of a request: the uploaded file or the URL
NoContent == [size |-> 0, head |-> ""]
NoRequest == [filename |-> "", content |-> NoContent, url |-> ""]

NoHttp == [endpoint |-> "none", task_id |-> 0, code |-> 0,
           body |-> [detail |-> ""], file |-> NoPath, filename |-> "",
           request |-> NoRequest]

HTTPException(endpoint, task_id, status_code, detail) ==
    [endpoint |-> endpoint, task_id |-> task_id, code |-> status_code,
     body |-> [detail |-> detail], file |-> NoPath, filename |-> "",
     request |-> NoRequest]

JSONResponse(endpoint, task_id, body) ==
    [endpoint |-> endpoint, task_id |-> task_id, code |-> 200,
     body |-> body, file |-> NoPath, filename |-> "",
     request |-> NoRequest]

FileResponse(endpoint, task_id, path, filename) ==
    [endpoint |-> endpoint, task_id |-> task_id, code |-> 200,
     body |-> [detail |-> ""], file |-> path, filename |-> filename,
     request |-> NoRequest]

\* the exchange of a submission: the response together with the form it answers
Answering(request, response) == [response EXCEPT !.request = request]

\* ------------------------------------------------------------ task locals
\* no value returned by download_video yet
NoResult == [success |-> FALSE, file_path |-> NoPath, title |-> "None", error |-> "None"]

NoArgs == [kind |-> "none", source |-> NoPath, url |-> "None",
           embed_subtitles |-> FALSE, language |-> "en"]

InitLoc == [downloader  |-> FALSE,     \* downloader = None
            video_path  |-> NoPath,    \* video_path = None
            attempt     |-> 0,
            delay       |-> 0,
            slept       |-> <<>>,      \* the time.sleep calls of the retry loop
            workers     |-> 0,         \* Process(...).start() calls
            terminated  |-> 0,         \* p.terminate() calls
            lingering   |-> 0,         \* workers still alive when p.join(5) had returned
            alive       |-> 0,         \* workers alive when the latest one had been started
            reasons     |-> <<>>,      \* failure reason of each failed attempt
            observed    |-> [alive |-> FALSE, empty |-> TRUE, success |-> FALSE,
                             file_path |-> NoPath],  \* p.is_alive(), q.get_nowait() of the last attempt
            result      |-> NoResult,
            input       |-> NoPath,    \* video_file_path given to the transform stages
            audio_path  |-> NoPath,
            audio_unlink_failed |-> FALSE,  \* an os.unlink of the temporary audio file raised
            srt         |-> NoPath,
            video_out   |-> NoPath,
            translation |-> "none",
            mux         |-> "none",
            mux_runs    |-> <<>>,      \* the ffmpeg runs of embed_soft_subtitles and how each ended
            muxed_from  |-> {},        \* the input files of the ffmpeg run that produced the output
            exc         |-> "None",    \* exception in flight / caught, by description
            stages      |-> <<>>,      \* transform stages called so far
            unlinks     |-> 0,         \* successful removals of the source media file
            unlink_failed |-> FALSE,   \* os.unlink of the source raised (logged, swallowed)
            rmtree_failed |-> FALSE]   \* shutil.rmtree raised inside cleanup() (logged, swallowed)

\* uuid.uuid4(): an id no record has had
NextId == Cardinality(DOMAIN processing_status) + 1

\* ------------------------------------------------- submission: validation
\* the characters of the file names and URLs submitted
Spelling ==
    [s \in FileNames \cup Urls |->
        CASE s = "a.mp4"         -> <<"a", ".", "m", "p", "4">>
          [] s = "notes.txt"     -> <<"n", "o", "t", "e", "s", ".", "t", "x", "t">>
          [] s = "youtu.be/x"    -> <<"y", "o", "u", "t", "u", ".", "b", "e", "/", "x">>
          [] s = "example.com/v" -> <<"e", "x", "a", "m", "p", "l", "e", ".", "c", "o", "m", "/", "v">>]

\* str.lower()
lower(s) ==
    LET UpperCase == <<"A", "B", "C", "D", "E", "F", "G", "H", "I", "J", "K", "L", "M",
                       "N", "O", "P", "Q", "R", "S", "T", "U", "V", "W", "X", "Y", "Z">>
        LowerCase == <<"a", "b", "c", "d", "e", "f", "g", "h", "i", "j", "k", "l", "m",
                       "n", "o", "p", "q", "r", "s", "t", "u", "v", "w", "x", "y", "z">>
    IN [k \in 1..Len(s) |->
           IF \E i \in 1..26 : UpperCase[i] = s[k]
           THEN LowerCase[CHOOSE i \in 1..26 : UpperCase[i] = s[k]]
           ELSE s[k]]

\* Path(name).suffix: from the last dot on, empty without a dot or with a leading dot only
suffix(s) ==
    LET dots == {k \in 2..Len(s) : s[k] = "."}
    IN IF dots = {} THEN <<>>
       ELSE SubSeq(s, CHOOSE k \in dots : \A j \in dots : j <= k, Len(s))

\* sub in s
Contains(s, sub) ==
    \E k \in 1..(Len(s) - Len(sub) + 1) : SubSeq(s, k, k + Len(sub) - 1) = sub

\* Path(file.filename).suffix.lower() of each file name submitted
FileExtension == [f \in FileNames |-> lower(suffix(Spelling[f]))]

\* processor.get_supported_formats()
get_supported_formats ==
    {<<".", "m", "p", "4">>, <<".", "a", "v", "i">>, <<".", "m", "o", "v">>,
     <<".", "m", "k", "v">>, <<".", "w", "m", "v">>, <<".", "f", "l", "v">>,
     <<".", "w", "e", "b", "m">>}

\* min_file_size = 1024
min_file_size == 1024
\* len(content) < min_file_size
NeverTooSmall(content) == FALSE
TooSmall(content) == content.size < min_file_size

\* _validate_video_file(content, file_extension): the container's signature is accepted,
\* and so is anything else that does not look like text
validate_video_file(content, file_extension) ==
    IF content.size < 12 THEN FALSE
    ELSE IF file_extension \in {<<".", "m", "p", "4">>, <<".", "m", "o", "v">>, <<".", "m", "4", "v">>}
            /\ content.head = "ftyp" THEN TRUE
    ELSE content.head # "text"

\* ("youtube.com" in url.lower()) or ("youtu.be" in url.lower())
IsYoutubeUrl ==
    [url \in Urls |->
        \/ Contains(lower(Spelling[url]), <<"y", "o", "u", "t", "u", "b", "e", ".", "c", "o", "m">>)
        \/ Contains(lower(Spelling[url]), <<"y", "o", "u", "t", "u", ".", "b", "e">>)]

\* raise HTTPException(...) before anything has been created: only the response is new
Raised(endpoint, request, status_code, detail) ==
    /\ http' = Answering(request, HTTPException(endpoint, 0, status_code, detail))
    /\ UNCHANGED <<other_vars, processing_status, fs, args, pc>>

\* ------------------------------------------------------- submission: upload
\* processing_status[task_id] = {...} in upload_video (start_time is wall time, left out)
InitialUploadStatusQueued == "queued"
InitialUploadStatus == "uploaded"

UploadRecord(fname, path, embed, lang) ==
    [status          |-> InitialUploadStatus,
     filename        |-> fname,
     file_path       |-> path,
     progress        |-> 0,
     message         |-> "File uploaded successfully",
     embed_subtitles |-> embed,
     language        |-> lang]

\* POST /upload: validate, then save the file, create the record, schedule the task;
\* write_ok = FALSE is a failing write, whose handler removes the file again
upload_video(fname, content, embed, lang, write_ok) ==
    /\ app = "main"
    /\ loop = 0
    /\ LET request == [NoRequest EXCEPT !.filename = fname, !.content = content]
           file_extension == FileExtension[fname]
       IN IF file_extension \notin get_supported_formats
          THEN Raised("upload", request, 400, "Unsupported file format")
          ELSE IF TooSmall(content)
          THEN Raised("upload", request, 400, "File too small")
          ELSE IF ~validate_video_file(content, file_extension)
          THEN Raised("upload", request, 400, "Invalid file format")
          ELSE /\ NextId \in TaskIds
               /\ IF ~write_ok
                  THEN Raised("upload", request, 500, "Failed to upload file")
                  ELSE LET t == NextId
                           path == UploadPath(t, fname)
                       IN /\ fs' = Written(fs, path, 1)
                          /\ processing_status' =
                                 (t :> UploadRecord(fname, path, embed, lang)) @@ processing_status
                          /\ args' = [args EXCEPT ![t] =
                                 [kind |-> "upload", source |-> path, url |-> "None",
                                  embed_subtitles |-> embed, language |-> lang]]
                          /\ pc' = [pc EXCEPT ![t] = "scheduled"]
                          /\ http' = Answering(request, JSONResponse("upload", t,
                                 [task_id |-> t, filename |-> fname,
                                  status |-> InitialUploadStatus]))
    /\ UNCHANGED <<other_vars, srt, names, app, loc, loop>>

\* ------------------------------------------------------ submission: youtube
InitialYoutubeStatus == "downloading"

YoutubeRecord(url, embed, lang) ==
    [status          |-> InitialYoutubeStatus,
     url             |-> url,
     progress        |-> 0,
     message         |-> "Downloading video from YouTube...",
     embed_subtitles |-> embed,
     language        |-> lang]

\* POST /youtube-download (main.py and test_server.py): validate the URL, create the
\* record, schedule the task
youtube_download(url, embed, lang) ==
    /\ loop = 0
    /\ LET request == [NoRequest EXCEPT !.url = url]
       IN IF ~IsYoutubeUrl[url]
          THEN Raised("youtube-download", request, 400, "Invalid YouTube URL")
          ELSE /\ NextId \in TaskIds
               /\ LET t == NextId
                  IN /\ processing_status' =
                            (t :> YoutubeRecord(url, embed, lang)) @@ processing_status
                     /\ args' = [args EXCEPT ![t] =
                            [kind |-> "youtube", source |-> NoPath, url |-> url,
                             embed_subtitles |-> embed, language |-> lang]]
                     /\ pc' = [pc EXCEPT ![t] = "scheduled"]
                     /\ http' = Answering(request, JSONResponse("youtube-download", t,
                            [task_id |-> t, url |-> url, status |-> InitialYoutubeStatus]))
                     /\ fs' = fs
    /\ UNCHANGED <<other_vars, srt, names, app, loc, loop>>

\* ------------------------------------------------- exception handling policy
\* the handler an exception raised in the finally block's cleanup reaches:
\* `except Exception as e: logger.warning(...)` swallows it
CleanupHandlerPropagates == "propagate"
CleanupHandler == "swallow"

\* what the cleanup handler does to the record: it only logs
CleanupFailureMarksError(rec) == Update(rec, [status |-> "error"])
AfterCleanupFailure(rec) == rec

\* the update made by `except Exception as e` of a background task
ExceptUpdateKeepsStatus(rec, prefix, e) == Update(rec, [progress |-> 0, message |-> prefix \o e])
ExceptUpdate(rec, prefix, e) ==
    Update(rec, [status |-> "error", progress |-> 0, message |-> prefix \o e])

ExceptPrefix(kind) ==
    IF kind = "upload" THEN "Processing failed: "
    ELSE IF app = "main" THEN "YouTube processing failed: "
    ELSE "YouTube download failed: "

\* ------------------------------------------------------ process_video_task
\* try: status -> processing, then generate_subtitles_with_video(file_path, ...) is entered
process_video_task_start(t) ==
    /\ loop = 0
    /\ pc[t] = "scheduled"
    /\ args[t].kind = "upload"
    /\ loop' = t
    /\ processing_status' = [processing_status EXCEPT ![t] =
           Update(@, [status |-> "processing", progress |-> 25,
                      message |-> "Extracting audio from video..."])]
    /\ loc' = [loc EXCEPT ![t].input = args[t].source]
    /\ pc' = [pc EXCEPT ![t] = "gs_extract"]
    /\ http' = NoHttp
    /\ UNCHANGED <<other_vars, srt, names, app, fs, args>>

\* -------------------------------------- generate_subtitles_with_video stages
Called(l, stage) == [l EXCEPT !.stages = Append(@, stage)]

\* where control goes when a stage raises inside the try block of
\* generate_subtitles_with_video: past every later stage, to the finally block
RaiseContinues(next) == next
Raise(next) == "gs_finally"

\* Step 1: extract_audio creates the temporary file, runs ffmpeg into it and probes
\* the duration.  When ffmpeg or the probe raises, its except handler unlinks the
\* file and re-raises; when that unlink raises, the file stays and the unlink's
\* exception is the one that leaves.  audio_path of the caller is bound on success only.
ExtractAudio(t) ==
    /\ loop = t
    /\ pc[t] = "gs_extract"
    /\ \E outcome \in {"ok", "run_fails", "probe_fails"}, unlink_ok \in BOOLEAN :
         IF outcome = "ok" /\ exists(loc[t].input)
         THEN /\ fs' = Written(fs, AudioPath(t), 1)
              /\ loc' = [loc EXCEPT ![t] = [Called(@, "extract_audio") EXCEPT !.audio_path = AudioPath(t)]]
              /\ pc' = [pc EXCEPT ![t] = "gs_transcribe"]
         ELSE /\ fs' = IF unlink_ok THEN fs
                       ELSE Written(fs, AudioPath(t), IF outcome = "probe_fails" THEN 1 ELSE 0)
              /\ loc' = [loc EXCEPT ![t] = [Called(@, "extract_audio") EXCEPT
                            !.exc = IF ~unlink_ok THEN "unlink error"
                                    ELSE IF outcome = "probe_fails" THEN "ffprobe error"
                                    ELSE "ffmpeg error",
                            !.audio_unlink_failed = ~unlink_ok]]
              /\ pc' = [pc EXCEPT ![t] = Raise("gs_transcribe")]
    /\ http' = NoHttp
    /\ UNCHANGED <<other_vars, srt, names, app, processing_status, args, loop>>

\* Step 2: transcribe_audio: returns the segments or re-raises
TranscribeAudio(t) ==
    /\ loop = t
    /\ pc[t] = "gs_transcribe"
    /\ \E ok \in BOOLEAN :
         IF ok
         THEN /\ loc' = [loc EXCEPT ![t] = Called(@, "transcribe_audio")]
              /\ pc' = [pc EXCEPT ![t] = "gs_format"]
         ELSE /\ loc' = [loc EXCEPT ![t] = [Called(@, "transcribe_audio") EXCEPT !.exc = "transcription error"]]
              /\ pc' = [pc EXCEPT ![t] = Raise("gs_format")]
    /\ http' = NoHttp
    /\ UNCHANGED <<other_vars, srt, names, app, processing_status, fs, args, loop>>

\* Step 4's test `if language != "en"`
NeedsTranslation(language) == language # "en"

\* Step 3: generate_srt_content, then Step 4's test `if language != "en"`
GenerateSrt(t) ==
    /\ loop = t
    /\ pc[t] = "gs_format"
    /\ loc' = [loc EXCEPT ![t] = Called(@, "generate_srt_content")]
    /\ pc' = [pc EXCEPT ![t] = IF NeedsTranslation(args[t].language) THEN "gs_translate" ELSE "gs_write"]
    /\ http' = NoHttp
    /\ UNCHANGED <<other_vars, srt, names, app, processing_status, fs, args, loop>>

\* Step 4: translate_srt_content: every backend failure is absorbed (the original
\* text comes back), so the stage never raises
Translate(t) ==
    /\ loop = t
    /\ pc[t] = "gs_translate"
    /\ \E backend \in {"translated", "fallback"} :
         loc' = [loc EXCEPT ![t] = [Called(@, "translate_srt_content") EXCEPT !.translation = backend]]
    /\ pc' = [pc EXCEPT ![t] = "gs_write"]
    /\ http' = NoHttp
    /\ UNCHANGED <<other_vars, srt, names, app, processing_status, fs, args, loop>>

\* Step 5: open(srt_output_path, 'w') ... f.write(srt_content), then `if embed_subtitles`
WriteSrt(t) ==
    /\ loop = t
    /\ pc[t] = "gs_write"
    /\ \E ok \in BOOLEAN :
         IF ok
         THEN /\ fs' = Written(fs, SrtPath(loc[t].input, t), 1)
              /\ loc' = [loc EXCEPT ![t] = [Called(@, "write_srt") EXCEPT !.srt = SrtPath(loc[t].input, t)]]
              /\ pc' = [pc EXCEPT ![t] = IF args[t].embed_subtitles THEN "gs_embed" ELSE "gs_finally"]
         ELSE /\ fs' = fs
              /\ loc' = [loc EXCEPT ![t] = [Called(@, "write_srt") EXCEPT !.exc = "write error"]]
              /\ pc' = [pc EXCEPT ![t] = "gs_finally"]
    /\ http' = NoHttp
    /\ UNCHANGED <<other_vars, srt, names, app, processing_status, args, loop>>

\* what generate_subtitles_with_video does when embed_soft_subtitles raises:
\* `except Exception as e: logger.warning(...)`, video_output_path stays None
EmbedFailureRaises(l) == [l EXCEPT !.mux = "failed", !.exc = "Failed to embed subtitles"]
EmbedFailure(l) == [l EXCEPT !.mux = "failed"]

\* the alternate strategy is inside the `except Exception as e:` of the primary one
AlternateAlwaysTried(primary_ok) == TRUE
AlternateTried(primary_ok) == ~primary_ok

\* the ffmpeg runs embed_soft_subtitles makes, in order, with their outcomes
MuxRuns(primary_ok, alternate_ok) ==
    <<[strategy |-> "primary", ok |-> primary_ok]>>
    \o (IF AlternateTried(primary_ok)
        THEN <<[strategy |-> "alternate", ok |-> alternate_ok]>> ELSE <<>>)

\* the files each strategy gives ffmpeg as input: ffmpeg.input(video_path) alone, or
\* ffmpeg.input(video_path) and ffmpeg.input(srt_path)
MuxInputs(strategy, video_path, srt_path) ==
    IF strategy = "primary" THEN {video_path} ELSE {video_path, srt_path}

\* Step 6: embed_soft_subtitles: the primary strategy, on failure the alternate one,
\* and an exception only when both failed
EmbedSoftSubtitles(t) ==
    /\ loop = t
    /\ pc[t] = "gs_embed"
    /\ \E primary \in BOOLEAN, alternate \in BOOLEAN :
         LET out  == MuxPath(loc[t].input)
             runs == MuxRuns(primary, alternate)
             last == runs[Len(runs)]
             l    == [Called(loc[t], "embed_soft_subtitles") EXCEPT !.mux_runs = runs]
         IN IF last.ok
            THEN /\ fs' = Written(fs, out, 1)
                 /\ loc' = [loc EXCEPT ![t] =
                        [l EXCEPT !.mux = last.strategy, !.video_out = out,
                                  !.muxed_from = MuxInputs(last.strategy, loc[t].input, loc[t].srt)]]
            ELSE /\ fs' = fs
                 /\ loc' = [loc EXCEPT ![t] = EmbedFailure(l)]
    /\ pc' = [pc EXCEPT ![t] = "gs_finally"]
    /\ http' = NoHttp
    /\ UNCHANGED <<other_vars, srt, names, app, processing_status, args, loop>>

\* `finally: if audio_path and os.path.exists(audio_path)`: the cleanup runs on every
\* way out of the try block
CleansAudioOnSuccessOnly(l) == l.exc = "None" /\ l.audio_path # NoPath /\ exists(l.audio_path)
CleansAudio(l) == l.audio_path # NoPath /\ exists(l.audio_path)

\* finally: remove the temporary audio file (a failure is logged), then return
\* (srt_output_path, video_output_path) or let the exception reach the task
GenerateFinally(t) ==
    /\ loop = t
    /\ pc[t] = "gs_finally"
    /\ IF CleansAudio(loc[t])
       THEN \E ok \in BOOLEAN :
              /\ fs' = IF ok THEN Unlinked(fs, loc[t].audio_path) ELSE fs
              /\ loc' = [loc EXCEPT ![t].audio_unlink_failed = ~ok]
       ELSE fs' = fs /\ loc' = loc
    /\ pc' = [pc EXCEPT ![t] = IF loc[t].exc = "None" THEN "complete" ELSE "except"]
    /\ http' = NoHttp
    /\ UNCHANGED <<other_vars, srt, names, app, processing_status, args, loop>>

\* --------------------------------------------------- YouTubeDownloader(...)
\* the keyword parameters of YouTubeDownloader.__init__
CtorParams == {"download_dir", "parallel", "audio_only", "max_retries", "rate_limit",
               "per_video_timeout", "max_resolution"}
\* the keyword arguments each process_youtube_task passes
CtorKwargs(a) ==
    IF a = "main"
    THEN {"download_dir", "parallel_downloads", "audio_only", "max_resolution", "rate_limit", "max_retries"}
    ELSE {"download_dir", "parallel", "audio_only", "max_resolution", "rate_limit", "max_retries"}
\* Python raises TypeError for a keyword argument the function does not declare
CtorAcceptsAnything(kwargs) == TRUE
CtorAccepts(kwargs) == kwargs \subseteq CtorParams

\* try: downloader = YouTubeDownloader(...); status -> downloading; download_video(url) is entered
process_youtube_task_start(t) ==
    /\ loop = 0
    /\ pc[t] = "scheduled"
    /\ args[t].kind = "youtube"
    /\ loop' = t
    /\ IF CtorAccepts(CtorKwargs(app))
       THEN /\ processing_status' = [processing_status EXCEPT ![t] =
                  Update(@, [status |-> "downloading", progress |-> 10,
                             message |-> "Downloading from YouTube..."])]
            /\ loc' = [loc EXCEPT ![t].downloader = TRUE, ![t].attempt = 1, ![t].delay = InitialDelay]
            /\ pc' = [pc EXCEPT ![t] = "dl_attempt"]
       ELSE /\ processing_status' = processing_status
            /\ loc' = [loc EXCEPT ![t].exc = "TypeError: unexpected keyword argument 'parallel_downloads'"]
            /\ pc' = [pc EXCEPT ![t] = "except"]
    /\ http' = NoHttp
    /\ UNCHANGED <<other_vars, srt, names, app, fs, args>>

\* ----------------------------------------- YouTubeDownloader.download_video
SuccessResultWithMessage(path, title) ==
    [success |-> TRUE, file_path |-> path, title |-> title, error |-> "Download successful"]
SuccessResult(path, title) == [success |-> TRUE, file_path |-> path, title |-> title, error |-> "None"]
GenericFailureResult(reason) ==
    [success |-> FALSE, file_path |-> NoPath, title |-> "None", error |-> "All download attempts failed"]
FailureResult(reason) == [success |-> FALSE, file_path |-> NoPath, title |-> "None", error |-> reason]

\* `if file_path and os.path.exists(file_path) and os.path.getsize(file_path) > 0`
VerifiedWhenNamed(f, path) == path # NoPath
Verified(f, path) == path # NoPath /\ path \in DOMAIN f /\ f[path] > 0

\* `delay *= 2`
SameDelay(delay) == delay
NextDelay(delay) == 2 * delay

\* a failed attempt: sleep and double the delay if attempts remain, else return the failure
AfterFailureTriesOnceMore(l, reason) ==
    IF l.attempt <= max_retries
    THEN [l EXCEPT !.slept = Append(@, l.delay), !.delay = NextDelay(@), !.attempt = @ + 1,
                   !.reasons = Append(@, reason)]
    ELSE [l EXCEPT !.result = FailureResult(reason), !.reasons = Append(@, reason)]
AfterFailure(l, reason) ==
    IF l.attempt < max_retries
    THEN [l EXCEPT !.slept = Append(@, l.delay), !.delay = NextDelay(@), !.attempt = @ + 1,
                   !.reasons = Append(@, reason)]
    ELSE [l EXCEPT !.result = FailureResult(reason), !.reasons = Append(@, reason)]

\* `if p.is_alive()`: terminate the worker, then a failed attempt like any other
AfterTimeoutGivesUp(l) ==
    [l EXCEPT !.terminated = @ + 1,
              !.result = FailureResult("Download timeout after 1800s"),
              !.reasons = Append(@, "Download timeout after 1800s")]
AfterTimeout(l) ==
    AfterFailure([l EXCEPT !.terminated = @ + 1], "Download timeout after 1800s")

\* `except Exception` around q.get_nowait(): the queue is empty
EmptyQueueIsSuccess(l) == [l EXCEPT !.result = SuccessResult(NoPath, "None")]
OnEmptyQueue(l) == AfterFailure(l, "No result from download worker")

\* what one worker process can do before p.join(per_video_timeout) returns
WorkerOutcomes == {"hang", "file", "empty_file", "no_file", "no_name", "failure", "no_result"}

\* the file system after the worker of `outcome` ran for `url`
WorkerWrites(f, outcome, url) ==
    IF outcome = "file" THEN Written(f, DownloadPath(url), 1)
    ELSE IF outcome = "empty_file" THEN Written(f, DownloadPath(url), 0)
    ELSE f

\* what the controller sees of the worker: p.is_alive(), and the (success, file_path,
\* title_or_error) message of the queue if there is one
Observed(outcome, url) ==
    [alive     |-> outcome = "hang",
     empty     |-> outcome \in {"hang", "no_result"},
     success   |-> outcome \in {"file", "empty_file", "no_file", "no_name"},
     file_path |-> IF outcome \in {"file", "empty_file", "no_file"}
                   THEN DownloadPath(url) ELSE NoPath]

\* `p.terminate(); p.join(5)`: the join returns when the worker has exited or when the
\* five seconds are over, and the worker is not looked at again
StillAlive(lingering, exited) == IF exited THEN lingering ELSE lingering + 1

\* one iteration of the retry loop: start a worker, join with the timeout, on a timeout
\* terminate it and join for five seconds, else read the queue
DownloadAttempt(t) ==
    /\ loop = t
    /\ pc[t] = "dl_attempt"
    /\ \E outcome \in WorkerOutcomes, exited \in BOOLEAN :
         LET o  == Observed(outcome, args[t].url)
             l  == [loc[t] EXCEPT !.workers = @ + 1, !.observed = o, !.alive = loc[t].lingering + 1]
             f  == WorkerWrites(fs, outcome, args[t].url)
             l2 == IF o.alive THEN AfterTimeout([l EXCEPT !.lingering = StillAlive(@, exited)])
                   ELSE IF o.empty THEN OnEmptyQueue(l)
                   ELSE IF ~o.success THEN AfterFailure(l, "DownloadError")
                   ELSE IF Verified(f, o.file_path)
                   THEN [l EXCEPT !.result = SuccessResult(o.file_path, "title")]
                   ELSE AfterFailure(l, "Downloaded file not found or empty")
         IN /\ fs' = f
            /\ loc' = [loc EXCEPT ![t] = l2]
            /\ pc' = [pc EXCEPT ![t] = IF l2.result # NoResult THEN "yt_check" ELSE "dl_attempt"]
    /\ http' = NoHttp
    /\ UNCHANGED <<other_vars, srt, names, app, processing_status, args, loop>>

\* test_server.py: `if not result.get("success"): raise Exception(...)`
ResultFailedIgnored(result) == FALSE
ResultFailed(result) == ~result.success

\* after download_video returned.
\* test_server.py reads the dict: success, then file_path and os.path.exists.
\* main.py takes the dict itself for the path: os.path.exists(<dict>) raises TypeError.
CheckDownload(t) ==
    /\ loop = t
    /\ pc[t] = "yt_check"
    /\ LET r == loc[t].result
       IN IF app = "main"
          THEN /\ loc' = [loc EXCEPT ![t].exc = "TypeError: path should be string, not dict"]
               /\ pc' = [pc EXCEPT ![t] = "except"]
          ELSE IF ResultFailed(r)
          THEN /\ loc' = [loc EXCEPT ![t].exc = "Download failed: " \o r.error]
               /\ pc' = [pc EXCEPT ![t] = "except"]
          ELSE IF r.file_path = NoPath \/ ~exists(r.file_path)
          THEN /\ loc' = [loc EXCEPT ![t].video_path = r.file_path,
                                     ![t].exc = "Download failed - no video file created"]
               /\ pc' = [pc EXCEPT ![t] = "except"]
          ELSE /\ loc' = [loc EXCEPT ![t].video_path = r.file_path]
               /\ pc' = [pc EXCEPT ![t] = "complete"]
    /\ http' = NoHttp
    /\ UNCHANGED <<other_vars, srt, names, app, processing_status, fs, args, loop>>

\* ------------------------------------------------ terminal record updates
\* `if video_path:` / `if processed_video_path:`
AlwaysHasVideo(video_path) == TRUE
HasVideo(video_path) == video_path # NoPath

\* result_data of process_video_task and of main.py's process_youtube_task
\* (processing_time is wall time, left out)
CompletedUpdateWithoutStatus(srt_path, video_path, message, message_with_video) ==
    [progress |-> 100, message |-> message,
     srt_path |-> srt_path, srt_filename |-> srt_path.name]
CompletedUpdate(srt_path, video_path, message, message_with_video) ==
    LET base == [status |-> "completed", progress |-> 100, message |-> message,
                 srt_path |-> srt_path, srt_filename |-> srt_path.name]
    IN IF HasVideo(video_path)
       THEN [video_path |-> video_path, video_filename |-> video_path.name,
             message |-> message_with_video] @@ base
       ELSE base

\* result_data of test_server.py's process_youtube_task
TestCompletedUpdate(video_path, title) ==
    [status |-> "completed", progress |-> 100,
     message |-> "YouTube video downloaded successfully (subtitle generation skipped in test mode)",
     download_path |-> video_path, download_filename |-> video_path.name, video_title |-> title]

\* the try block's last statements: processing_status[task_id].update(result_data)
Complete(t) ==
    /\ loop = t
    /\ pc[t] = "complete"
    /\ processing_status' = [processing_status EXCEPT ![t] =
         IF args[t].kind = "upload"
         THEN Update(@, CompletedUpdate(loc[t].srt, loc[t].video_out,
                        "Subtitles generated successfully",
                        "Subtitles and video with embedded subtitles generated successfully"))
         ELSE IF app = "main"
         THEN Update(@, CompletedUpdate(loc[t].srt, loc[t].video_out,
                        "YouTube video processed and subtitles generated successfully",
                        "YouTube video processed - subtitles and video with embedded subtitles generated successfully"))
         ELSE Update(@, TestCompletedUpdate(loc[t].video_path, loc[t].result.title))]
    /\ pc' = [pc EXCEPT ![t] = "finally"]
    /\ http' = NoHttp
    /\ UNCHANGED <<other_vars, srt, names, app, fs, args, loc, loop>>

\* except Exception as e: status -> error, progress 0, message with str(e)
Except(t) ==
    /\ loop = t
    /\ pc[t] = "except"
    /\ processing_status' = [processing_status EXCEPT ![t] =
         ExceptUpdate(@, ExceptPrefix(args[t].kind), loc[t].exc)]
    /\ pc' = [pc EXCEPT ![t] = "finally"]
    /\ http' = NoHttp
    /\ UNCHANGED <<other_vars, srt, names, app, fs, args, loc, loop>>

\* the coroutine has ended: its frame (every local variable) is gone; what is kept
\* is what its finally block logged: the removal it made and the failures it swallowed
Returned(unlinks, unlink_failed, rmtree_failed) ==
    [InitLoc EXCEPT !.unlinks = unlinks, !.unlink_failed = unlink_failed,
                    !.rmtree_failed = rmtree_failed]

\* where a task goes when its cleanup raised
AfterCleanup(failed) == IF failed /\ CleanupHandler # "swallow" THEN "crashed" ELSE "done"

\* `if os.path.exists(file_path): os.unlink(file_path)`: the file is removed when it
\* is there and the unlink call does not raise
NeverRemoves(present, unlink_ok) == FALSE
Removes(present, unlink_ok) == present /\ unlink_ok

\* finally of process_video_task: remove the uploaded file if it exists; a failure
\* of os.unlink is logged and swallowed
VideoFinally(t) ==
    /\ loop = t
    /\ pc[t] = "finally"
    /\ args[t].kind = "upload"
    /\ \E unlink_ok \in BOOLEAN :
         LET present == exists(args[t].source)
             removed == Removes(present, unlink_ok)
             failed  == present /\ ~unlink_ok
         IN /\ fs' = IF removed THEN Unlinked(fs, args[t].source) ELSE fs
            /\ loc' = [loc EXCEPT ![t] = Returned(IF removed THEN 1 ELSE 0, failed, FALSE)]
            /\ processing_status' = [processing_status EXCEPT ![t] =
                   IF failed THEN AfterCleanupFailure(@) ELSE @]
            /\ pc' = [pc EXCEPT ![t] = AfterCleanup(failed)]
    /\ loop' = 0
    /\ http' = NoHttp
    /\ UNCHANGED <<other_vars, srt, names, app, args>>

\* finally of process_youtube_task: remove the downloaded file if video_path is set
\* and exists, then downloader.cleanup() (shutil.rmtree(download_dir), which logs and
\* swallows its own failure) if a downloader was constructed
YoutubeFinally(t) ==
    /\ loop = t
    /\ pc[t] = "finally"
    /\ args[t].kind = "youtube"
    /\ \E unlink_ok \in BOOLEAN, rmtree_ok \in BOOLEAN :
         LET present == loc[t].video_path # NoPath /\ exists(loc[t].video_path)
             removed == Removes(present, unlink_ok)
             failed  == present /\ ~unlink_ok
             f1      == IF removed THEN Unlinked(fs, loc[t].video_path) ELSE fs
             f2      == IF loc[t].downloader /\ rmtree_ok THEN RmTree(f1, UPLOAD_DIR) ELSE f1
         IN /\ fs' = f2
            /\ loc' = [loc EXCEPT ![t] = Returned(IF removed THEN 1 ELSE 0, failed,
                                                   loc[t].downloader /\ ~rmtree_ok)]
            /\ processing_status' = [processing_status EXCEPT ![t] =
                   IF failed THEN AfterCleanupFailure(@) ELSE @]
            /\ pc' = [pc EXCEPT ![t] = AfterCleanup(failed)]
    /\ loop' = 0
    /\ http' = NoHttp
    /\ UNCHANGED <<other_vars, srt, names, app, args>>

\* ============================================================ HTTP handlers
\* status.copy() with `del status[key]` for each key present
Without(rec, keys) == [k \in DOMAIN rec \ keys |-> rec[k]]

\* the keys get_status deletes from the copy: main.py, test_server.py
Deleted(a) == IF a = "main" THEN {"file_path", "subtitle_path"} ELSE {"download_path"}

\* `if task_id not in processing_status`
UnknownOrFinished(task_id) ==
    task_id \notin DOMAIN processing_status \/ processing_status[task_id].status \in Terminal
Unknown(task_id) == task_id \notin DOMAIN processing_status

\* GET /status/{task_id}
get_status(task_id) ==
    /\ loop = 0
    /\ http' = IF Unknown(task_id)
               THEN HTTPException("status", task_id, 404, "Task not found")
               ELSE JSONResponse("status", task_id,
                                 Without(processing_status[task_id], Deleted(app)))
    /\ UNCHANGED <<other_vars, srt, names, app, processing_status, fs, args, pc, loc, loop>>

\* `if status["status"] != "completed"`
NeverNotReady(status) == FALSE
NotReady(status) == status.status # "completed"

\* `if key not in status or not os.path.exists(status[key])`
Missing(status, key) == key \notin DOMAIN status \/ ~exists(status[key])

\* GET /download/{task_id} (main.py)
download_subtitles(task_id) ==
    /\ app = "main"
    /\ loop = 0
    /\ http' = IF Unknown(task_id)
               THEN HTTPException("download", task_id, 404, "Task not found")
               ELSE LET status == processing_status[task_id]
                    IN IF NotReady(status)
                       THEN HTTPException("download", task_id, 400, "Subtitles not ready yet")
                       ELSE IF Missing(status, "srt_path")
                       THEN HTTPException("download", task_id, 404, "Subtitle file not found")
                       ELSE FileResponse("download", task_id, status.srt_path, status.srt_filename)
    /\ UNCHANGED <<other_vars, srt, names, app, processing_status, fs, args, pc, loc, loop>>

\* GET /download-video/{task_id} (main.py)
download_video_with_subtitles(task_id) ==
    /\ app = "main"
    /\ loop = 0
    /\ http' = IF Unknown(task_id)
               THEN HTTPException("download-video", task_id, 404, "Task not found")
               ELSE LET status == processing_status[task_id]
                    IN IF NotReady(status)
                       THEN HTTPException("download-video", task_id, 400, "Video not ready yet")
                       ELSE IF Missing(status, "video_path")
                       THEN HTTPException("download-video", task_id, 404,
                                          "Video with subtitles not found or was not requested")
                       ELSE FileResponse("download-video", task_id,
                                         status.video_path, status.video_filename)
    /\ UNCHANGED <<other_vars, srt, names, app, processing_status, fs, args, pc, loc, loop>>

\* ====================================================== subtitle text (SRT)
\* A Python str is a sequence of one-character strings.
NL == "\n"
Whitespace == {" ", NL, "\t"}
Digits == {"0", "1", "2", "3", "4", "5", "6", "7", "8", "9"}

\* str.isdigit(): non-empty and every character a digit
isdigit(s) == Len(s) > 0 /\ \A k \in 1..Len(s) : s[k] \in Digits

RECURSIVE lstrip(_)
lstrip(s) == IF s # <<>> /\ Head(s) \in Whitespace THEN lstrip(Tail(s)) ELSE s

RECURSIVE rstrip(_)
rstrip(s) == IF s # <<>> /\ s[Len(s)] \in Whitespace THEN rstrip(SubSeq(s, 1, Len(s) - 1)) ELSE s

\* str.strip()
strip(s) == rstrip(lstrip(s))

\* s.split('\n'): the pieces between consecutive newlines, always at least one element
split(s) ==
    LET nl     == {k \in 1..Len(s) : s[k] = NL}
        cut(i) == IF i = 0 THEN 0
                  ELSE IF i > Cardinality(nl) THEN Len(s) + 1
                  ELSE CHOOSE k \in nl : Cardinality({j \in nl : j < k}) = i - 1
    IN [i \in 1..(Cardinality(nl) + 1) |-> SubSeq(s, cut(i - 1) + 1, cut(i) - 1)]

\* sep.join(parts)
RECURSIVE join(_, _)
join(sep, parts) ==
    IF parts = <<>> THEN <<>>
    ELSE IF Len(parts) = 1 THEN parts[1]
    ELSE parts[1] \o sep \o join(sep, Tail(parts))

\* str(n) for n >= 0
DigitChar(d) == <<"0", "1", "2", "3", "4", "5", "6", "7", "8", "9">>[d + 1]
RECURSIVE Decimal(_)
Decimal(n) == IF n < 10 THEN <<DigitChar(n)>> ELSE Append(Decimal(n \div 10), DigitChar(n % 10))

\* f"{n:0{width}d}"
RECURSIVE ZeroPad(_, _)
ZeroPad(s, width) == IF Len(s) < width THEN ZeroPad(<<"0">> \o s, width) ELSE s

\* A time (a Python float, in seconds) is a whole number of ticks of 1/1024 s: such a
\* value is an exact binary float, seconds // 3600, seconds % 60 and seconds % 1 are
\* exact, and so is the product (seconds % 1) * 1000, whose floor int() takes.
TicksPerSecond == 1024

\* int((seconds % 3600) // 60)
MinutesUnbounded(t) == t \div (60 * TicksPerSecond)
Minutes(t) == (t % (3600 * TicksPerSecond)) \div (60 * TicksPerSecond)

\* format_srt_timestamp(seconds)
format_srt_timestamp(t) ==
    LET hours        == t \div (3600 * TicksPerSecond)
        minutes      == Minutes(t)
        secs         == (t % (60 * TicksPerSecond)) \div TicksPerSecond
        milliseconds == ((t % TicksPerSecond) * 1000) \div TicksPerSecond
    IN ZeroPad(Decimal(hours), 2) \o <<":">> \o ZeroPad(Decimal(minutes), 2) \o <<":">>
       \o ZeroPad(Decimal(secs), 2) \o <<",">> \o ZeroPad(Decimal(milliseconds), 3)

Arrow == <<"-", "-", ">">>

\* generate_srt_content: f"{i}\n{start_time} --> {end_time}\n{text}\n\n" for each segment
RECURSIVE SrtEntries(_, _)
SrtEntries(segments, i) ==
    IF i > Len(segments) THEN <<>>
    ELSE LET segment == segments[i]
         IN Decimal(i) \o <<NL>>
            \o format_srt_timestamp(segment.start) \o <<" ">> \o Arrow \o <<" ">>
            \o format_srt_timestamp(segment.end) \o <<NL>>
            \o strip(segment.text) \o <<NL, NL>>
            \o SrtEntries(segments, i + 1)
generate_srt_content(segments) == SrtEntries(segments, 1)

\* _translate_with_gpt: the backend's text on success; the original text when the key
\* is missing, the request raises or the response is malformed
Backends == {"ok", "no_key", "request_error", "malformed"}
BackendReply == <<" ", "o", "u", "i">>
translate_with_gpt(text, backend) == IF backend = "ok" THEN strip(BackendReply) ELSE text

\* the inner while loop: first index >= j whose line is blank or all digits, or Len + 1
RECURSIVE TextEnd(_, _)
TextEnd(lines, j) ==
    IF j <= Len(lines) /\ strip(lines[j]) # <<>> /\ ~isdigit(strip(lines[j]))
    THEN TextEnd(lines, j + 1)
    ELSE j

StripAll(lines) == [k \in 1..Len(lines) |-> strip(lines[k])]

\* the outer while loop of translate_srt_content (j = i + 1, lines are 1-based here)
RECURSIVE TranslateLines(_, _, _, _)
TranslateLines(lines, j, out, backend) ==
    IF j > Len(lines) THEN out
    ELSE LET line == strip(lines[j])
         IN IF isdigit(line)
            THEN IF j + 1 <= Len(lines) /\ Contains(lines[j + 1], Arrow)
                 THEN LET e          == TextEnd(lines, j + 2)
                          text_lines == StripAll(SubSeq(lines, j + 2, e - 1))
                          body       == IF text_lines # <<>>
                                        THEN <<translate_with_gpt(join(<<" ">>, text_lines), backend)>>
                                        ELSE <<>>
                      IN TranslateLines(lines, e, out \o <<line, lines[j + 1]>> \o body \o << <<>> >>, backend)
                 ELSE TranslateLines(lines, j + 2, Append(out, line), backend)
            ELSE TranslateLines(lines, j + 1, IF line = <<>> THEN Append(out, <<>>) ELSE out, backend)

\* the texts the outer while loop passes to _translate_with_gpt, in order
RECURSIVE SentLines(_, _)
SentLines(lines, j) ==
    IF j > Len(lines) THEN <<>>
    ELSE IF isdigit(strip(lines[j]))
    THEN IF j + 1 <= Len(lines) /\ Contains(lines[j + 1], Arrow)
         THEN LET e          == TextEnd(lines, j + 2)
                  text_lines == StripAll(SubSeq(lines, j + 2, e - 1))
              IN (IF text_lines # <<>> THEN <<join(<<" ">>, text_lines)>> ELSE <<>>)
                 \o SentLines(lines, e)
         ELSE SentLines(lines, j + 2)
    ELSE SentLines(lines, j + 1)

\* `if target_language == "en": return srt_content`
TranslatesEnglishToo(target_language) == FALSE
IsEnglish(target_language) == target_language = "en"

\* translate_srt_content(srt_content, target_language)
translate_srt_content(srt_content, target_language, backend) ==
    IF IsEnglish(target_language) THEN srt_content
    ELSE join(<<NL>>, TranslateLines(split(strip(srt_content)), 1, <<>>, backend))

\* the calls of _translate_with_gpt made by translate_srt_content(srt_content, target_language)
SentToBackend(srt_content, target_language) ==
    IF IsEnglish(target_language) THEN <<>>
    ELSE SentLines(split(strip(srt_content)), 1)


\* ----------------------------------------------------------- specification
PipelineInit ==
    /\ processing_status = <<>>
    /\ fs = <<>>
    /\ args = [t \in TaskIds |-> NoArgs]
    /\ pc = [t \in TaskIds |-> "unborn"]
    /\ loc = [t \in TaskIds |-> InitLoc]
    /\ loop = 0
    /\ http = NoHttp

NoSrt == [pc |-> "idle", segments |-> <<>>, language |-> "en", backend |-> "ok",
          original |-> <<>>, given |-> <<>>, content |-> <<>>, sent |-> <<>>]

\* no job is being named
NoNames == [jobs |-> <<>>, pos |-> <<>>, input |-> <<>>, written |-> <<>>]

\* what sweep, hook, cli and client hold while nothing of theirs is running
Idle == [pc |-> "idle"]

Init ==
    /\ app \in Apps
    /\ PipelineInit
    /\ names = NoNames
    /\ srt = NoSrt
    /\ sweep = Idle /\ hook = Idle /\ cli = Idle /\ client = Idle

\* the upload forms submitted.  A form is answered as soon as its outcome is settled:
\* one with an unsupported extension before its content is read, one that validation
\* turns away or whose write fails without embed_subtitles or language having been
\* looked at; for what is not looked at one choice is drawn.
UploadForms ==
    {x \in FileNames \X Contents \X BOOLEAN \X Languages \X BOOLEAN :
        LET supported == FileExtension[x[1]] \in get_supported_formats
            valid     == ~TooSmall(x[2]) /\ validate_video_file(x[2], FileExtension[x[1]])
            first     == ~x[3] /\ x[4] = "en"
        IN \/ supported /\ valid /\ x[5]
           \/ supported /\ valid /\ ~x[5] /\ first
           \/ supported /\ ~valid /\ x[5] /\ first
           \/ ~supported /\ x[2] = [size |-> 2048, head |-> "ftyp"] /\ x[5] /\ first}

\* the URL forms submitted: a URL that is turned away is answered without embed_subtitles
\* or language having been looked at
YoutubeForms ==
    {x \in Urls \X BOOLEAN \X UrlLanguages : IsYoutubeUrl[x[1]] \/ ~x[2]}

Submit ==
    \/ \E x \in UploadForms : upload_video(x[1], x[2], x[3], x[4], x[5])
    \/ \E x \in YoutubeForms : youtube_download(x[1], x[2], x[3])

TaskStep(t) ==
    \/ process_video_task_start(t)
    \/ ExtractAudio(t)
    \/ TranscribeAudio(t)
    \/ GenerateSrt(t)
    \/ Translate(t)
    \/ WriteSrt(t)
    \/ EmbedSoftSubtitles(t)
    \/ GenerateFinally(t)
    \/ process_youtube_task_start(t)
    \/ DownloadAttempt(t)
    \/ CheckDownload(t)
    \/ Complete(t)
    \/ Except(t)
    \/ VideoFinally(t)
    \/ YoutubeFinally(t)

\* a client asks about a task id it holds or has made up
Request ==
    \E task_id \in TaskIds :
        \/ get_status(task_id)
        \/ download_subtitles(task_id)
        \/ download_video_with_subtitles(task_id)

Next == Submit \/ Request \/ \E t \in TaskIds : TaskStep(t)

Spec == Init /\ [][Next]_vars

\* the event loop runs every ready task: a task that can take a step takes it
LiveSpec == Spec /\ \A t \in TaskIds : WF_vars(TaskStep(t))

\* ------------------------------------- specification of the subtitle text run
\* Whisper segments: text with the leading blank Whisper emits, a number read out,
\* several words, silence; times in ticks: 0 s and 1.5 s, 3661.25 s and 3662 s,
\* 59 + 1023/1024 s and 3599 + 1023/1024 s (the last tick before the minute and the hour)
Texts == {<<" ", "h", "i">>, <<"7">>, <<"a", " ", "b">>, <<>>}
Spans == {<<0, 1536>>, <<3749120, 3749888>>, <<61439, 3686399>>}
Segments == {[start |-> sp[1], end |-> sp[2], text |-> tx] : sp \in Spans, tx \in Texts}
SegmentSeqs == UNION {[1..n -> Segments] : n \in 0..MaxSegments}

SrtInit ==
    /\ app = "main"
    /\ PipelineInit
    /\ names = NoNames
    /\ sweep = Idle /\ hook = Idle /\ cli = Idle /\ client = Idle
    /\ \E sg \in SegmentSeqs, lg \in Languages, bk \in Backends :
         srt = [pc |-> "transcribed", segments |-> sg, language |-> lg, backend |-> bk,
                original |-> <<>>, given |-> <<>>, content |-> <<>>, sent |-> <<>>]

\* Step 3 of generate_subtitles_with_video: srt_content = generate_srt_content(result)
SrtGenerate ==
    /\ srt.pc = "transcribed"
    /\ srt' = [srt EXCEPT !.pc = "generated",
                          !.original = generate_srt_content(srt.segments),
                          !.content = generate_srt_content(srt.segments)]
    /\ UNCHANGED pipeline_vars
    /\ UNCHANGED <<names, other_vars>>

\* Step 4: srt_content = translate_srt_content(srt_content, language) if language != "en"
SrtTranslate ==
    /\ srt.pc = "generated"
    /\ NeedsTranslation(srt.language)
    /\ srt' = [srt EXCEPT !.pc = "translated",
                          !.given = srt.content,
                          !.content = translate_srt_content(srt.content, srt.language, srt.backend),
                          !.sent = SentToBackend(srt.content, srt.language)]
    /\ UNCHANGED pipeline_vars
    /\ UNCHANGED <<names, other_vars>>

\* a call of the method by another caller than Step 4 (as src/test_translation.py makes):
\* translate_srt_content(srt_content, target_language) with any language, on the text at hand
SrtCall ==
    /\ srt.pc \in {"generated", "translated"}
    /\ \E lg \in Languages :
         srt' = [srt EXCEPT !.pc = "called",
                            !.language = lg,
                            !.given = srt.content,
                            !.content = translate_srt_content(srt.content, lg, srt.backend),
                            !.sent = SentToBackend(srt.content, lg)]
    /\ UNCHANGED pipeline_vars
    /\ UNCHANGED <<names, other_vars>>

SrtSpec == SrtInit /\ [][SrtGenerate \/ SrtTranslate \/ SrtCall]_vars

\* --------------------------------------- specification of the file naming
\* Jobs submitted together: each names the file of its source (the upload saved by
\* upload_video, or the download of YouTubeDownloader), then its subtitle file,
\* then, if embedding was requested, its muxed video.  Job i has task id i, and
\* the uuid4 fragment of its subtitle name is i as well.
JobIds == 1..MaxJobs
Jobs(a) ==
    {[kind |-> "youtube", filename |-> "", url |-> u, embed_subtitles |-> e] :
        u \in {x \in Urls : IsYoutubeUrl[x]}, e \in BOOLEAN}
    \cup (IF a # "main" THEN {}
          ELSE {[kind |-> "upload", filename |-> f, url |-> "", embed_subtitles |-> e] :
                   f \in {x \in FileNames : FileExtension[x] \in get_supported_formats},
                   e \in BOOLEAN})

NameInit ==
    /\ app \in Apps
    /\ PipelineInit
    /\ srt = NoSrt
    /\ sweep = Idle /\ hook = Idle /\ cli = Idle /\ client = Idle
    /\ \E js \in [JobIds -> Jobs(app)] :
         names = [jobs    |-> js,
                  pos     |-> [i \in JobIds |-> "submitted"],
                  input   |-> [i \in JobIds |-> NoPath],
                  written |-> [i \in JobIds |-> {}]]

\* file_path of upload_video, or the outtmpl of download_video
NameSource(i) ==
    /\ names.pos[i] = "submitted"
    /\ LET job  == names.jobs[i]
           path == IF job.kind = "upload" THEN UploadPath(i, job.filename)
                   ELSE DownloadPath(job.url)
       IN names' = [names EXCEPT !.pos[i] = "stored", !.input[i] = path,
                                 !.written[i] = @ \cup {path}]
    /\ UNCHANGED <<pipeline_vars, srt, other_vars>>

\* srt_output_path of generate_subtitles_with_video (test_server.py stops at the download)
NameSrt(i) ==
    /\ app = "main"
    /\ names.pos[i] = "stored"
    /\ names' = [names EXCEPT !.pos[i] = "subtitled",
                              !.written[i] = @ \cup {SrtPath(names.input[i], i)}]
    /\ UNCHANGED <<pipeline_vars, srt, other_vars>>

\* output_path of embed_soft_subtitles
NameMux(i) ==
    /\ names.pos[i] = "subtitled"
    /\ names.jobs[i].embed_subtitles
    /\ names' = [names EXCEPT !.pos[i] = "muxed",
                              !.written[i] = @ \cup {MuxPath(names.input[i])}]
    /\ UNCHANGED <<pipeline_vars, srt, other_vars>>

NameSpec == NameInit /\ [][\E i \in JobIds : NameSource(i) \/ NameSrt(i) \/ NameMux(i)]_vars

\* ======================================= jobs sharing the upload directory
\* Jobs submitted to one server, each run from its first statement to the end of its
\* finally block without another job running in between (the coroutines never await),
\* and the files of UPLOAD_DIR.
SweepInit ==
    /\ app \in Apps
    /\ PipelineInit
    /\ srt = NoSrt
    /\ names = NoNames
    /\ hook = Idle /\ cli = Idle /\ client = Idle
    /\ sweep = [jobs |-> <<>>, state |-> <<>>, files |-> <<>>]

\* upload_video writes the upload to file_path and schedules process_video_task;
\* youtube_download only schedules process_youtube_task
SweepSubmit ==
    /\ Len(sweep.jobs) < MaxJobs
    /\ \E job \in Jobs(app) :
         LET i == Len(sweep.jobs) + 1
         IN sweep' = [jobs  |-> Append(sweep.jobs, job),
                      state |-> Append(sweep.state, "waiting"),
                      files |-> IF job.kind = "upload"
                                THEN Written(sweep.files, UploadPath(i, job.filename), 1)
                                ELSE sweep.files]
    /\ UNCHANGED <<pipeline_vars, srt, names, hook, cli, client>>

\* process_video_task from start to end: its finally block removes file_path
SweepVideoTask(i) ==
    /\ i \in DOMAIN sweep.jobs
    /\ sweep.state[i] = "waiting"
    /\ sweep.jobs[i].kind = "upload"
    /\ \E unlink_ok \in BOOLEAN :
         LET source  == UploadPath(i, sweep.jobs[i].filename)
             removed == Removes(source \in DOMAIN sweep.files, unlink_ok)
         IN sweep' = [sweep EXCEPT !.state[i] = "done",
                                   !.files = IF removed THEN Unlinked(@, source) ELSE @]
    /\ UNCHANGED <<pipeline_vars, srt, names, hook, cli, client>>

\* process_youtube_task from start to end: the constructor call, the last worker of
\* download_video, the check of its result, and the finally block: os.unlink(video_path)
\* if video_path is set, downloader.cleanup() if a downloader was constructed
SweepYoutubeTask(i) ==
    /\ i \in DOMAIN sweep.jobs
    /\ sweep.state[i] = "waiting"
    /\ sweep.jobs[i].kind = "youtube"
    /\ \E outcome \in WorkerOutcomes, unlink_ok \in BOOLEAN, rmtree_ok \in BOOLEAN :
         LET url        == sweep.jobs[i].url
             downloader == CtorAccepts(CtorKwargs(app))
             f0         == IF downloader THEN WorkerWrites(sweep.files, outcome, url) ELSE sweep.files
             o          == Observed(outcome, url)
             video_path == IF downloader /\ app # "main" /\ ~o.alive /\ ~o.empty /\ o.success
                              /\ Verified(f0, o.file_path)
                           THEN o.file_path ELSE NoPath
             present    == video_path # NoPath /\ video_path \in DOMAIN f0
             f1         == IF Removes(present, unlink_ok) THEN Unlinked(f0, video_path) ELSE f0
             f2         == IF downloader /\ rmtree_ok THEN RmTree(f1, UPLOAD_DIR) ELSE f1
         IN sweep' = [sweep EXCEPT !.state[i] = "done", !.files = f2]
    /\ UNCHANGED <<pipeline_vars, srt, names, hook, cli, client>>

SweepSpec ==
    SweepInit /\ [][SweepSubmit \/ \E i \in JobIds : SweepVideoTask(i) \/ SweepYoutubeTask(i)]_vars

\* ================================================== safe_progress_hook(d)
\* A Python value is a record of its type and its content: a number for int and float,
\* the characters for str, nothing for None and for a list.
Py(type, v) == [type |-> type, v |-> v]

\* the number a string of digits stands for
RECURSIVE DigitsValue(_)
DigitsValue(s) ==
    IF s = <<>> THEN 0
    ELSE 10 * DigitsValue(SubSeq(s, 1, Len(s) - 1))
         + (CHOOSE n \in 0..9 : DigitChar(n) = s[Len(s)])

\* float(x): the exception it raises ("None" when it returns) and the value it returns.
\* A string is stripped of surrounding whitespace and must then be a numeral (of the
\* numerals Python accepts the model has the unsigned whole ones).
FloatRaises(x) ==
    IF x.type \in {"int", "float"} THEN "None"
    ELSE IF x.type = "str" THEN (IF isdigit(strip(x.v)) THEN "None" ELSE "ValueError")
    ELSE "TypeError"
float(x) ==
    IF x.type = "str" THEN Py("float", DigitsValue(strip(x.v))) ELSE Py("float", x.v)

\* the three keys the hook converts, in the order of its statements
NumericKeys == <<"downloaded_bytes", "total_bytes", "total_bytes_estimate">>

\* the statements of the try block from the k-th `if '<key>' in d:` on; an exception
\* of float() leaves the block: the outcome is the dictionary so far and the exception
RECURSIVE Coerce(_, _)
Coerce(d, k) ==
    IF k > Len(NumericKeys) THEN [d |-> d, exc |-> "None"]
    ELSE LET key == NumericKeys[k]
         IN IF key \notin DOMAIN d THEN Coerce(d, k + 1)
            ELSE IF d[key].type = "NoneType" THEN Coerce([d EXCEPT ![key] = Py("float", 0)], k + 1)
            ELSE IF FloatRaises(d[key]) # "None" THEN [d |-> d, exc |-> FloatRaises(d[key])]
            ELSE Coerce([d EXCEPT ![key] = float(d[key])], k + 1)

\* the dictionary after the call, and the exception that leaves the call.  In the try
\* block d['status'] raises KeyError when the key is missing;
\* `except (ValueError, TypeError, KeyError): pass`
safe_progress_hook(d) ==
    LET r == IF "status" \notin DOMAIN d THEN [d |-> d, exc |-> "KeyError"]
             ELSE IF d["status"] # Py("str", <<"downloading">>) THEN [d |-> d, exc |-> "None"]
             ELSE Coerce(d, 1)
    IN [d |-> r.d, raised |-> IF r.exc \in {"ValueError", "TypeError", "KeyError"} THEN "None" ELSE r.exc]

\* the progress dictionaries given to the hook: each key absent or with one of the values
ProgressDicts ==
    LET Statuses == {Py("str", <<"downloading">>), Py("str", <<"finished">>)}
        Values   == {Py("NoneType", 0), Py("int", 512), Py("float", 512),
                     Py("str", <<"5", "1", "2">>), Py("str", <<" ", "7">>),
                     Py("str", <<"N", "/", "A">>), Py("list", 0)}
    IN UNION {{d \in [ks -> Statuses \cup Values] :
                  \A key \in ks : (key = "status") <=> (d[key] \in Statuses)} :
              ks \in SUBSET ({"status"} \cup {NumericKeys[k] : k \in 1..Len(NumericKeys)})}

HookInit ==
    /\ app = "main"
    /\ PipelineInit
    /\ srt = NoSrt
    /\ names = NoNames
    /\ sweep = Idle /\ cli = Idle /\ client = Idle
    /\ \E d \in ProgressDicts : hook = [pc |-> "called", d |-> d, given |-> d, raised |-> "None"]

\* yt-dlp calls the hook with d; the hook changes d in place
HookCall ==
    /\ hook.pc = "called"
    /\ hook' = [hook EXCEPT !.pc = "returned",
                            !.d = safe_progress_hook(hook.d).d,
                            !.raised = safe_progress_hook(hook.d).raised]
    /\ UNCHANGED <<pipeline_vars, srt, names, sweep, cli, client>>

HookSpec == HookInit /\ [][HookCall]_vars

\* ================================================ downloader.py: main()
\* the lines of urls.txt: lists of different URLs, at most MaxUrls of them
UrlLists ==
    UNION {{us \in [1..n -> {"youtu.be/a", "youtu.be/b", "youtu.be/c"}] :
               \A i, j \in 1..n : us[i] = us[j] => i = j} : n \in 0..MaxUrls}

\* the status string download_url returns for url, as its words; "OK" and "FAILED"
\* stand for the check mark and the cross mark the strings begin with
DownloadUrlResults(url) ==
    {<<"OK", "Downloaded:", url>>, <<"FAILED", "Failed:", url>>,
     <<"FAILED", "Failed:", url, "(timeout)">>}

\* r.startswith(mark)
startswith(r, mark) == Len(r) > 0 /\ r[1] = mark

\* [u for u, r in zip(urls, results) if r.startswith(FAILED)]: zip pairs the i-th of
\* the one with the i-th of the other and stops at the end of the shorter
RECURSIVE FailuresOf(_, _)
FailuresOf(urls, results) ==
    IF urls = <<>> \/ results = <<>> THEN <<>>
    ELSE (IF startswith(Head(results), "FAILED") THEN <<Head(urls)>> ELSE <<>>)
         \o FailuresOf(Tail(urls), Tail(results))

\* max_workers of the ThreadPoolExecutor
max_workers == 2

CliInit ==
    /\ app = "main"
    /\ PipelineInit
    /\ srt = NoSrt
    /\ names = NoNames
    /\ sweep = Idle /\ hook = Idle /\ client = Idle
    /\ \E us \in UrlLists, par \in BOOLEAN :
         cli = [pc |-> "running", parallel |-> par, urls |-> us, done |-> {},
                results |-> <<>>, failures |-> <<>>, summary |-> [total |-> 0, success |-> 0, failed |-> 0],
                failed_file |-> <<>>]

\* `for fut in as_completed(futures): results.append(fut.result())`: a future that a
\* pool thread has taken up completes, and its result is appended.  A thread takes the
\* next submitted future when it is free.
CliFutureDone ==
    /\ cli.pc = "running"
    /\ cli.parallel
    /\ \E i \in (1..Len(cli.urls)) \ cli.done :
         /\ Cardinality({j \in 1..(i - 1) : j \notin cli.done}) < max_workers
         /\ \E r \in DownloadUrlResults(cli.urls[i]) :
              cli' = [cli EXCEPT !.done = @ \cup {i}, !.results = Append(@, r)]
    /\ UNCHANGED <<pipeline_vars, srt, names, sweep, hook, client>>

\* `for u in urls: res = download_url(u); results.append(res)`
CliSequential ==
    /\ cli.pc = "running"
    /\ ~cli.parallel
    /\ Len(cli.results) < Len(cli.urls)
    /\ \E r \in DownloadUrlResults(cli.urls[Len(cli.results) + 1]) :
         cli' = [cli EXCEPT !.done = @ \cup {Len(cli.results) + 1}, !.results = Append(@, r)]
    /\ UNCHANGED <<pipeline_vars, srt, names, sweep, hook, client>>

\* the summary and failed_urls.txt, written when there are failures
CliSummary ==
    /\ cli.pc = "running"
    /\ Len(cli.results) = Len(cli.urls)
    /\ LET failures == FailuresOf(cli.urls, cli.results)
       IN cli' = [cli EXCEPT !.pc = "done",
                             !.failures = failures,
                             !.summary = [total   |-> Len(cli.urls),
                                          success |-> Len(cli.urls) - Len(failures),
                                          failed  |-> Len(failures)],
                             !.failed_file = failures]
    /\ UNCHANGED <<pipeline_vars, srt, names, sweep, hook, client>>

CliSpec == CliInit /\ [][CliFutureDone \/ CliSequential \/ CliSummary]_vars

\* ============================================ gradio_app.py: the upload client
\* process_video_gradio after its POST /upload was answered with a task id: it polls
\* GET /status/{task_id}, which main.py answers from the record of the task.
\* `max_polls = 300`
max_polls == 300

\* what the loop does with the status_data of one poll: the message it returns with,
\* or "None" when it goes on polling
PollReport(status_data) ==
    LET get(key, default) == IF key \in DOMAIN status_data THEN status_data[key] ELSE default
        status == get("status", "unknown")
    IN IF status = "completed" THEN "Processing completed successfully"
       ELSE IF status = "failed"
       THEN "Processing failed: " \o get("error", "Unknown error")
       ELSE "None"

ClientInit ==
    /\ app = "main"
    /\ PipelineInit
    /\ srt = NoSrt
    /\ names = NoNames
    /\ sweep = Idle /\ hook = Idle /\ cli = Idle
    /\ \E embed \in BOOLEAN, lang \in Languages :
         client = [pc         |-> "polling",
                   poll_count |-> 0,
                   record     |-> UploadRecord("a.mp4", UploadPath(1, "a.mp4"), embed, lang),
                   report     |-> "None"]

\* process_video_task from start to end; the server answers no request meanwhile.
\* The record is completed, or error with the exception's text
ServerRun ==
    /\ client.record.status = "uploaded"
    /\ \E e \in {"None", "transcription error", "write error"} :
         client' = [client EXCEPT !.record =
            IF e = "None"
            THEN Update(@, CompletedUpdate(SrtPath(UploadPath(1, "a.mp4"), 1), NoPath,
                            "Subtitles generated successfully",
                            "Subtitles and video with embedded subtitles generated successfully"))
            ELSE ExceptUpdate(Update(@, [status |-> "processing", progress |-> 25,
                                         message |-> "Extracting audio from video..."]),
                              ExceptPrefix("upload"), e)]
    /\ UNCHANGED <<pipeline_vars, srt, names, sweep, hook, cli>>

\* one turn of `while poll_count < max_polls`: GET /status/{task_id} and its answer
ClientPoll ==
    /\ client.pc = "polling"
    /\ client.poll_count < max_polls
    /\ LET status_data == Without(client.record, Deleted("main"))
           report      == PollReport(status_data)
       IN client' = [client EXCEPT !.poll_count = @ + 1,
                                   !.report = report,
                                   !.pc = IF report = "None" THEN "polling" ELSE "returned"]
    /\ UNCHANGED <<pipeline_vars, srt, names, sweep, hook, cli>>

\* the loop has ended without a return
ClientTimeout ==
    /\ client.pc = "polling"
    /\ client.poll_count >= max_polls
    /\ client' = [client EXCEPT !.pc = "returned", !.report = "Processing timeout (10 minutes)"]
    /\ UNCHANGED <<pipeline_vars, srt, names, sweep, hook, cli>>

ClientSpec == ClientInit /\ [][ServerRun \/ ClientPoll \/ ClientTimeout]_vars

\* ================================================================ properties
Records == DOMAIN processing_status

\* the five statuses the lifecycle is described with
LifecycleStatuses == {"queued", "downloading", "processing", "completed", "error"}
\* the five statuses the code assigns
AssignedStatuses == {"uploaded", "downloading", "processing", "completed", "error"}

\* C1: once a task's status is completed or error, no later step changes it
C1_TerminalStatusIsFinal ==
    [][\A t \in Records :
          StatusOf(t) \in Terminal => processing_status'[t].status = StatusOf(t)]_vars

\* a task that reached a terminal status and then ran its cleanup, which failed
C1_Witness ==
    \E t \in Records : StatusOf(t) \in Terminal /\ pc[t] = "done" /\ loc[t].unlink_failed

C3_AcquiredMovesToProcessing ==
    [][\A t \in Records :
          (/\ args[t].kind = "youtube"
           /\ pc[t] = "yt_check"
           /\ loc[t].result.success
           /\ exists(loc[t].result.file_path)
           /\ pc'[t] # "yt_check")
          => /\ processing_status'[t].status = "processing"
             /\ loc'[t].input = loc[t].result.file_path
             /\ pc'[t] # "except"]_vars

\* C4: a YouTube task whose download_video returned a failure (retries exhausted, or
\* the reported file missing or empty) calls no transform stage and reaches status
\* error with a message that carries the failure's reason
C4_FailedAcquisitionEndsInError ==
    \A t \in Records :
        LET r == loc[t].result
        IN (args[t].kind = "youtube" /\ r # NoResult /\ ~r.success)
           => /\ loc[t].stages = <<>>
              /\ loc[t].input = NoPath
              /\ pc[t] \in {"yt_check", "except", "finally"}
              /\ pc[t] = "finally" =>
                    /\ StatusOf(t) = "error"
                    /\ processing_status[t].message
                         = ExceptPrefix("youtube") \o "Download failed: " \o r.error

\* the last permitted attempt found the downloaded file missing or empty, and the
\* task has recorded its error
C4_Witness ==
    \E t \in Records :
        /\ pc[t] = "finally"
        /\ loc[t].attempt = max_retries
        /\ loc[t].result = FailureResult("Downloaded file not found or empty")
        /\ StatusOf(t) = "error"

\* C5: every accepted task eventually has status completed or error
C5_EveryTaskTerminates ==
    \A t \in TaskIds :
        (t \in Records) ~> (t \in Records /\ StatusOf(t) \in Terminal)

\* a task that ran to its end, cleanup included, and has a terminal status
C5_Witness ==
    \E t \in Records : pc[t] = "done" /\ StatusOf(t) \in Terminal /\ ~loc[t].unlink_failed

\* C6: a task submitted with embed_subtitles whose muxing failed in both strategies,
\* every other stage succeeding, is completed with srt_path and without video_path
C6_MuxFailureStillCompletes ==
    \A t \in Records :
        (/\ pc[t] = "finally"
         /\ args[t].embed_subtitles
         /\ loc[t].mux = "failed")
        => /\ StatusOf(t) = "completed"
           /\ "srt_path" \in DOMAIN processing_status[t]
           /\ processing_status[t].srt_path = loc[t].srt
           /\ exists(processing_status[t].srt_path)
           /\ "video_path" \notin DOMAIN processing_status[t]

\* both muxing strategies failed and the task's result has been recorded
C6_Witness ==
    \E t \in Records :
        /\ pc[t] = "finally"
        /\ args[t].embed_subtitles
        /\ loc[t].mux = "failed"
        /\ loc[t].stages[Len(loc[t].stages)] = "embed_soft_subtitles"

\* C7: a record has video_path only if the task was submitted with embed_subtitles
\* and its muxing stage returned successfully (the muxed file was written)
C7_VideoPathOnlyAfterMux ==
    \A t \in Records :
        "video_path" \in DOMAIN processing_status[t]
        => /\ args[t].embed_subtitles
           /\ processing_status[t].embed_subtitles
           /\ processing_status[t].video_path # NoPath
           /\ exists(processing_status[t].video_path)
           /\ pc[t] = "finally" =>
                 /\ loc[t].mux \in {"primary", "alternate"}
                 /\ processing_status[t].video_path = loc[t].video_out

\* a completed task whose record holds video_path
C7_Witness ==
    \E t \in Records :
        /\ "video_path" \in DOMAIN processing_status[t]
        /\ StatusOf(t) = "completed"

\* the subtitle blocks of an SRT text: the maximal runs of non-blank lines
RECURSIVE Runs(_, _, _)
Runs(lines, k, cur) ==
    LET closed == IF cur = <<>> THEN <<>> ELSE <<cur>>
    IN IF k > Len(lines) THEN closed
       ELSE IF strip(lines[k]) = <<>> THEN closed \o Runs(lines, k + 1, <<>>)
       ELSE Runs(lines, k + 1, Append(cur, lines[k]))
Blocks(content) == Runs(split(content), 1, <<>>)

\* the text of each block: its lines after the index line and the timing line
BlockTexts(content) ==
    LET b == Blocks(content)
    IN [k \in 1..Len(b) |-> SubSeq(b[k], 3, Len(b[k]))]

\* C8: with a translation backend that fails and a target language other than en,
\* the text of every block of the output equals the text of the same block of the input
C8_FallbackKeepsBlockTexts ==
    (srt.pc = "translated" /\ srt.backend # "ok")
    => BlockTexts(srt.content) = BlockTexts(srt.original)

\* C9: an exception raised by a stage is caught by the task, which sets status error
\* with a message carrying the exception's description; no exception, an exception
\* of the cleanup included, leaves the task function
C9_ExceptionsAreAbsorbed ==
    \A t \in TaskIds :
        /\ pc[t] # "crashed"
        /\ (pc[t] = "finally" /\ loc[t].exc # "None")
           => /\ StatusOf(t) = "error"
              /\ processing_status[t].message = ExceptPrefix(args[t].kind) \o loc[t].exc
        /\ (pc[t] = "finally" /\ loc[t].exc = "None") => StatusOf(t) = "completed"

\* a stage raised, the task recorded the error, and then its cleanup raised as well
C9_Witness ==
    \E t \in Records :
        /\ pc[t] = "done"
        /\ loc[t].unlink_failed
        /\ StatusOf(t) = "error"
        /\ args[t].kind = "upload"

\* the transient source media file of a task: the uploaded file, or the file the
\* download produced
Source(t) == IF args[t].kind = "upload" THEN args[t].source ELSE loc[t].video_path
HasSource(t) == Source(t) # NoPath /\ exists(Source(t))

AfterGenerate(t) == pc[t] \in {"complete", "except", "finally"} /\ loc[t].stages # <<>>

\* C11 (as stated): after generate_subtitles_with_video returns or raises, the
\* temporary audio file created by extract_audio does not exist, whichever stage
\* failed or succeeded
C11_AudioFileIsGone ==
    \A t \in Records : AfterGenerate(t) => ~exists(AudioPath(t))

\* C11 (amended): after generate_subtitles_with_video returns or raises, the temporary
\* audio file does not exist unless an os.unlink of it raised; it exists while the
\* stages after extraction run
C11_AudioFileIsGoneUnlessUnlinkFailed ==
    \A t \in Records :
        /\ AfterGenerate(t) => (exists(AudioPath(t)) => loc[t].audio_unlink_failed)
        /\ pc[t] \in {"gs_transcribe", "gs_format", "gs_translate", "gs_write", "gs_embed"}
           => exists(AudioPath(t)) /\ loc[t].audio_path = AudioPath(t)

\* transcription raised after the audio was extracted, and the audio file is gone
C11_Witness ==
    \E t \in Records :
        /\ pc[t] = "except"
        /\ loc[t].audio_path = AudioPath(t)
        /\ loc[t].exc = "transcription error"
        /\ ~exists(AudioPath(t))

\* a task's pipeline is in progress: its coroutine has started and has not ended
PipelineRunning(t) == pc[t] \notin {"unborn", "scheduled", "done", "crashed"}

\* C12: while a task's pipeline is in progress the scheduler can serve a status poll
\* for it: the poll can be answered before the pipeline finishes
C12_PollsServedWhilePipelineRuns ==
    \A t \in Records : PipelineRunning(t) => ENABLED get_status(t)

\* a task is inside YouTubeDownloader.download_video or has just got its result
InDownload(t) == pc[t] \in {"dl_attempt", "yt_check"}

RECURSIVE Pow2(_)
Pow2(n) == IF n = 0 THEN 1 ELSE 2 * Pow2(n - 1)

RECURSIVE Sum(_)
Sum(seq) == IF seq = <<>> THEN 0 ELSE Head(seq) + Sum(Tail(seq))

\* C13: a call of download_video starts at most max_retries workers, starts none
\* after a verified success, and returns a result when every worker exits or is cut
\* off by the timeout
C13_BoundedWorkersAndReturn ==
    /\ [](\A t \in TaskIds :
            /\ loc[t].workers <= max_retries
            /\ pc[t] = "dl_attempt" => loc[t].result = NoResult /\ loc[t].workers = loc[t].attempt - 1
            /\ pc[t] = "yt_check" => loc[t].result # NoResult /\ loc[t].workers = loc[t].attempt)
    /\ \A t \in TaskIds :
          (pc[t] = "dl_attempt") ~> (pc[t] = "yt_check" /\ loc[t].result # NoResult)

\* the last permitted worker succeeded and download_video returned its file
C13_Witness ==
    \E t \in Records :
        /\ pc[t] = "yt_check"
        /\ loc[t].workers = max_retries
        /\ loc[t].result.success

\* C14: when every worker is still alive at the timeout, every worker is terminated,
\* every attempt counts as a timeout failure, download_video returns the timeout
\* failure after exactly max_retries attempts, and it has waited at least max_retries
\* timeouts plus the backoff delays between the attempts
C14_AlwaysHangingWorkers ==
    \A t \in Records :
        (InDownload(t) /\ loc[t].terminated = loc[t].workers)
        => /\ \A k \in 1..Len(loc[t].reasons) :
                 loc[t].reasons[k] = "Download timeout after 1800s"
           /\ Len(loc[t].reasons) = loc[t].workers
           /\ pc[t] = "yt_check"
              => /\ loc[t].workers = max_retries
                 /\ loc[t].result = FailureResult("Download timeout after 1800s")
                 /\ loc[t].terminated * per_video_timeout + Sum(loc[t].slept)
                      >= max_retries * per_video_timeout
                         + InitialDelay * (Pow2(max_retries - 1) - 1)

\* download_video has returned after all its workers were terminated
C14_Witness ==
    \E t \in Records :
        /\ pc[t] = "yt_check"
        /\ loc[t].terminated = max_retries
        /\ loc[t].workers = max_retries

\* C15: the delay slept after failed attempt k is InitialDelay * 2^(k-1) whatever the
\* kind of the failure, and exactly one delay is slept between consecutive attempts
C15_ExponentialBackoff ==
    \A t \in Records :
        InDownload(t)
        => /\ Len(loc[t].slept) = loc[t].attempt - 1
           /\ \A k \in 1..Len(loc[t].slept) : loc[t].slept[k] = InitialDelay * Pow2(k - 1)
           /\ loc[t].delay = InitialDelay * Pow2(loc[t].attempt - 1)
           /\ \A k \in 1..Len(loc[t].slept) : k <= Len(loc[t].reasons)

\* two delays were slept, after failures of two different kinds
C15_Witness ==
    \E t \in Records :
        /\ pc[t] = "dl_attempt"
        /\ Len(loc[t].slept) = 2
        /\ loc[t].reasons[1] = "Download timeout after 1800s"
        /\ loc[t].reasons[2] = "Downloaded file not found or empty"

\* the last worker reported success with a path that is null, missing or empty
ReportedUnverified(t) ==
    /\ InDownload(t)
    /\ loc[t].workers > 0
    /\ ~loc[t].observed.empty
    /\ loc[t].observed.success
    /\ \/ loc[t].observed.file_path = NoPath
       \/ ~exists(loc[t].observed.file_path)
       \/ fs[loc[t].observed.file_path] = 0

\* C16: when a worker reports success but the reported path is null, missing or
\* empty, download_video does not return success for that attempt: it retries if
\* attempts remain and otherwise returns a failure
C16_UnverifiedSuccessIsFailure ==
    \A t \in Records :
        ReportedUnverified(t)
        => /\ loc[t].reasons # <<>>
           /\ loc[t].reasons[Len(loc[t].reasons)] = "Downloaded file not found or empty"
           /\ IF Len(loc[t].reasons) < max_retries
              THEN pc[t] = "dl_attempt" /\ loc[t].result = NoResult
                   /\ loc[t].attempt = Len(loc[t].reasons) + 1
              ELSE pc[t] = "yt_check" /\ loc[t].result # NoResult /\ ~loc[t].result.success

\* a worker reported success for an empty file and the attempt is being retried
C16_Witness ==
    \E t \in Records :
        /\ ReportedUnverified(t)
        /\ loc[t].observed.file_path # NoPath
        /\ exists(loc[t].observed.file_path)
        /\ pc[t] = "dl_attempt"

\* the last worker exited and left no message in the queue
ExitedWithoutResult(t) ==
    /\ InDownload(t)
    /\ loc[t].workers > 0
    /\ ~loc[t].observed.alive
    /\ loc[t].observed.empty

\* C17: when a worker has exited and the queue holds no message, the attempt is a
\* failure with the no-result reason, retried with backoff like any failed attempt,
\* and never a success
C17_NoResultIsFailure ==
    \A t \in Records :
        ExitedWithoutResult(t)
        => /\ loc[t].reasons # <<>>
           /\ loc[t].reasons[Len(loc[t].reasons)] = "No result from download worker"
           /\ IF Len(loc[t].reasons) < max_retries
              THEN /\ pc[t] = "dl_attempt"
                   /\ loc[t].result = NoResult
                   /\ Len(loc[t].slept) = Len(loc[t].reasons)
                   /\ loc[t].slept[Len(loc[t].slept)] = InitialDelay * Pow2(Len(loc[t].slept) - 1)
              ELSE /\ pc[t] = "yt_check"
                   /\ loc[t].result = FailureResult("No result from download worker")

\* the second worker exited without a message and a third attempt is due
C17_Witness ==
    \E t \in Records :
        /\ ExitedWithoutResult(t)
        /\ pc[t] = "dl_attempt"
        /\ loc[t].attempt = 3

\* C18: when all max_retries attempts fail, the error of the returned result is the
\* failure reason of the last attempt
C18_LastReasonIsReturned ==
    \A t \in Records :
        (InDownload(t) /\ loc[t].result # NoResult /\ ~loc[t].result.success)
        => /\ Len(loc[t].reasons) = max_retries
           /\ loc[t].result.error = loc[t].reasons[max_retries]
           /\ loc[t].result.error # "All download attempts failed"

\* all attempts failed, the first for another reason than the last
C18_Witness ==
    \E t \in Records :
        /\ pc[t] = "yt_check"
        /\ ~loc[t].result.success
        /\ loc[t].reasons[1] # loc[t].reasons[max_retries]
        /\ loc[t].reasons[2] # loc[t].reasons[max_retries]

\* the keys of a record whose values are internal filesystem paths
InternalPaths == {"file_path", "srt_path", "video_path"}

\* C19: the status response for a known task id contains no internal filesystem
\* path (file_path, srt_path, video_path) in any status; an unknown id gets the
\* not-found response
C19_StatusResponseHidesPaths ==
    http.endpoint = "status"
    => IF http.task_id \in Records
       THEN http.code = 200 /\ DOMAIN http.body \cap InternalPaths = {}
       ELSE http.code = 404

\* the artifact a download endpoint serves: the record key that names it
ArtifactKey(endpoint) == IF endpoint = "download" THEN "srt_path" ELSE "video_path"

\* C20: a download endpoint returns a file only for a completed task whose record
\* names that artifact and whose file exists (for the video: embedding was requested
\* and muxing succeeded); an unknown id, a task that is not completed or an artifact
\* that was not produced gets an explicit error, never a success without a file
C20_OnlyProducedArtifactsAreDelivered ==
    http.endpoint \in {"download", "download-video"}
    => LET t   == http.task_id
           key == ArtifactKey(http.endpoint)
       IN /\ http.code \in {200, 400, 404}
          /\ http.code = 200
             => /\ t \in Records
                /\ StatusOf(t) = "completed"
                /\ key \in DOMAIN processing_status[t]
                /\ http.file = processing_status[t][key]
                /\ http.file # NoPath
                /\ exists(http.file)
                /\ fs[http.file] > 0
                /\ http.endpoint = "download-video" => args[t].embed_subtitles
          /\ http.code # 200 => http.file = NoPath /\ http.body.detail # ""
          /\ t \notin Records => http.code = 404
          /\ (t \in Records /\ StatusOf(t) # "completed") => http.code = 400
          /\ (t \in Records /\ StatusOf(t) = "completed"
                /\ key \notin DOMAIN processing_status[t]) => http.code = 404

\* the muxed video of a completed task has been delivered
C20_Witness ==
    /\ http.endpoint = "download-video"
    /\ http.code = 200
    /\ http.file = MuxPath(args[http.task_id].source)

\* ------------------------------------------------------------------- C21
\* the submissions validation turns away: a file whose extension is outside the
\* allow-list, whose content is shorter than 1024 bytes or fails the magic-byte
\* check, or a URL containing neither "youtube.com" nor "youtu.be"
NeitherYoutubeName ==
    {u \in Urls :
        /\ ~Contains(lower(Spelling[u]), <<"y", "o", "u", "t", "u", "b", "e", ".", "c", "o", "m">>)
        /\ ~Contains(lower(Spelling[u]), <<"y", "o", "u", "t", "u", ".", "b", "e">>)}
InvalidSubmission(r) ==
    \/ /\ r.filename # ""
       /\ \/ FileExtension[r.filename] \notin get_supported_formats
          \/ r.content.size < 1024
          \/ ~validate_video_file(r.content, FileExtension[r.filename])
    \/ r.url \in NeitherYoutubeName

\* C21: a submission that validation rejects is answered with status 400 and
\* creates no record, writes no file and schedules no background task: the
\* registry, the file system, the bound arguments and every task's position are
\* the same after the handler as before it
C21_RejectedSubmissionHasNoEffect ==
    [][(http'.endpoint \in {"upload", "youtube-download"} /\ InvalidSubmission(http'.request))
        => /\ http'.code = 400
           /\ processing_status' = processing_status
           /\ fs' = fs
           /\ args' = args
           /\ pc' = pc]_vars

\* a file that is too short has been rejected while the registry holds a record
C21_Witness ==
    /\ http.endpoint = "upload"
    /\ http.code = 400
    /\ http.request.content.size < 1024
    /\ http.request.filename = "a.mp4"
    /\ Records # {}

C24_ProgressNeverDecreases ==
    [][\A t \in Records : processing_status'[t].progress >= processing_status[t].progress]_vars

\* ------------------------------------------------------------------- C25
\* C25: translate_srt_content called with target language "en" returns the text it
\* was given, unchanged, and calls no translation backend; the pipeline's Step 4
\* does not call it at all when the language is "en"
C25_EnglishIsNotTranslated ==
    /\ (srt.pc = "called" /\ srt.language = "en")
         => /\ srt.content = srt.given
            /\ srt.sent = <<>>
    /\ srt.pc = "translated" => srt.language # "en"

\* the method was called with "en" on a text with two blocks whose translation to
\* another language would have changed it
C25_Witness ==
    /\ srt.pc = "called"
    /\ srt.language = "en"
    /\ Len(srt.segments) = 2
    /\ srt.backend = "ok"
    /\ translate_srt_content(srt.given, "fr", srt.backend) # srt.given
    /\ SentToBackend(srt.given, "fr") # <<>>

\* ------------------------------------------------------------------- C26
\* C26: parsing the output of generate_srt_content block by block and serializing it
\* again, as translate_srt_content does when the text of every block is kept (the
\* backend falls back to the original text), gives the input back character for
\* character, trailing newlines included, for every segment sequence
C26_RoundTripIsIdentity ==
    (srt.pc = "translated" /\ srt.backend # "ok" /\ srt.given = generate_srt_content(srt.segments))
    => srt.content = srt.given

\* ------------------------------------------------------------------- C27
\* every segment has a text, so every generated block has an index line, a timing
\* line and a text line
EveryBlockHasText == \A k \in 1..Len(srt.segments) : strip(srt.segments[k].text) # <<>>

\* C27: for a well-formed subtitle text, a text line of digits included, the output
\* of translate_srt_content has as many blocks as the input and each block begins
\* with the index line and the timing line of the same block of the input; what is
\* passed to the translator is the text of a block, never an index or timing line
C27_IndexAndTimingLinesAreKept ==
    (srt.pc = "translated" /\ EveryBlockHasText)
    => LET a == Blocks(srt.given)
           b == Blocks(srt.content)
       IN /\ Len(b) = Len(a)
          /\ \A k \in 1..Len(a) : SubSeq(b[k], 1, 2) = SubSeq(a[k], 1, 2)
          /\ \A i \in 1..Len(srt.sent) :
               \E k \in 1..Len(a) : srt.sent[i] = join(<<" ">>, StripAll(SubSeq(a[k], 3, Len(a[k]))))

\* ------------------------------------------------------------------- C28
\* the number a run of decimal digits stands for
RECURSIVE Value(_)
Value(s) ==
    IF s = <<>> THEN 0
    ELSE 10 * Value(SubSeq(s, 1, Len(s) - 1))
         + (CHOOSE d \in 0..9 : DigitChar(d) = s[Len(s)])

\* a rendered timestamp has the shape HH:MM:SS,mmm and stands for the time t (in ticks
\* of 1/TicksPerSecond s): hours, minutes, seconds and milliseconds are the floors the
\* claim names, minutes and seconds within 0..59, milliseconds within 0..999
Renders(stamp, t) ==
    /\ Len(stamp) >= 12
    /\ stamp[Len(stamp) - 9] = ":" /\ stamp[Len(stamp) - 6] = ":" /\ stamp[Len(stamp) - 3] = ","
    /\ isdigit(SubSeq(stamp, 1, Len(stamp) - 10))
    /\ isdigit(SubSeq(stamp, Len(stamp) - 8, Len(stamp) - 7))
    /\ isdigit(SubSeq(stamp, Len(stamp) - 5, Len(stamp) - 4))
    /\ isdigit(SubSeq(stamp, Len(stamp) - 2, Len(stamp)))
    /\ \A HH  \in {Value(SubSeq(stamp, 1, Len(stamp) - 10))},
          MM  \in {Value(SubSeq(stamp, Len(stamp) - 8, Len(stamp) - 7))},
          SS  \in {Value(SubSeq(stamp, Len(stamp) - 5, Len(stamp) - 4))},
          mmm \in {Value(SubSeq(stamp, Len(stamp) - 2, Len(stamp)))} :
         /\ MM \in 0..59 /\ SS \in 0..59 /\ mmm \in 0..999
         /\ HH * 3600 * TicksPerSecond <= t
         /\ t < (HH + 1) * 3600 * TicksPerSecond
         /\ \A frac \in {t - HH * 3600 * TicksPerSecond - MM * 60 * TicksPerSecond
                             - SS * TicksPerSecond} :
              /\ 0 <= frac /\ frac < TicksPerSecond
              /\ mmm * TicksPerSecond <= frac * 1000
              /\ frac * 1000 < (mmm + 1) * TicksPerSecond

\* the start and end timestamps on a timing line
StampsOf(line) ==
    LET at == CHOOSE i \in 1..Len(line) : SubSeq(line, i, i + 4) = <<" ">> \o Arrow \o <<" ">>
    IN <<SubSeq(line, 1, at - 1), SubSeq(line, at + 5, Len(line))>>

\* C28: every timestamp generate_srt_content writes is HH:MM:SS,mmm, zero-padded, with
\* hours = floor(seconds / 3600), minutes = floor((seconds mod 3600) / 60), seconds =
\* floor(seconds mod 60), milliseconds = floor(fraction * 1000), minutes and seconds
\* in 0..59 and milliseconds in 0..999; 3661.25 s gives 01:01:01,250, 0 s gives
\* 00:00:00,000 and the last tick before the first minute gives 00:00:59,999
C28_TimestampIsFloorOfEachUnit ==
    srt.pc = "generated"
    => \A blocks \in {Blocks(srt.content)} :
         \A k \in 1..Len(srt.segments) :
           \A stamps \in {StampsOf(blocks[k][2])}, start \in {srt.segments[k].start} :
             /\ Renders(stamps[1], start)
             /\ Renders(stamps[2], srt.segments[k].end)
             /\ start = 3661 * TicksPerSecond + TicksPerSecond \div 4
                  => stamps[1] = <<"0", "1", ":", "0", "1", ":", "0", "1", ",", "2", "5", "0">>
             /\ start = 0
                  => stamps[1] = <<"0", "0", ":", "0", "0", ":", "0", "0", ",", "0", "0", "0">>
             /\ start = 60 * TicksPerSecond - 1
                  => stamps[1] = <<"0", "0", ":", "0", "0", ":", "5", "9", ",", "9", "9", "9">>

\* a text was generated whose blocks start at 3661.25 s and at the last tick before
\* the first minute
C28_Witness ==
    /\ srt.pc = "generated"
    /\ Len(srt.segments) = 2
    /\ srt.segments[1].start = 3661 * TicksPerSecond + TicksPerSecond \div 4
    /\ srt.segments[2].start = 60 * TicksPerSecond - 1
    /\ srt.segments[2].end = 3600 * TicksPerSecond - 1

\* ------------------------------------------------------------------- C29
\* the stages of a task in their fixed order: translation only for a language other
\* than "en", muxing only when embedding was requested
StageOrder(a) ==
    <<"extract_audio", "transcribe_audio", "generate_srt_content">>
    \o (IF a.language # "en" THEN <<"translate_srt_content">> ELSE <<>>)
    \o <<"write_srt">>
    \o (IF a.embed_subtitles THEN <<"embed_soft_subtitles">> ELSE <<>>)

IsPrefix(s, full) == Len(s) <= Len(full) /\ s = SubSeq(full, 1, Len(s))

\* the exceptions extraction and transcription raise
EarlyFailures == {"ffmpeg error", "ffprobe error", "unlink error", "transcription error"}

\* the stages called so far are an initial part of the fixed order; after a failure of
\* extraction or transcription the failed stage is the last one called, no subtitle
\* file has been written, and the record, once updated, is in status error without
\* an srt_path
StagesInOrder ==
    \A t \in TaskIds :
        /\ IsPrefix(loc[t].stages, StageOrder(args[t]))
        /\ loc[t].exc \in EarlyFailures
           => /\ loc[t].stages \in {<<"extract_audio">>, <<"extract_audio", "transcribe_audio">>}
              /\ loc[t].srt = NoPath
              /\ ~exists(SrtPath(loc[t].input, t))
              /\ pc[t] \in {"gs_finally", "except", "finally"}
              /\ pc[t] = "finally"
                 => /\ StatusOf(t) = "error"
                    /\ "srt_path" \notin DOMAIN processing_status[t]
        /\ (t \in Records /\ \E e \in EarlyFailures :
                processing_status[t].message = ExceptPrefix(args[t].kind) \o e)
           => /\ StatusOf(t) = "error"
              /\ "srt_path" \notin DOMAIN processing_status[t]
              /\ ~exists(SrtPath(args[t].source, t))

\* C29: the stages of a task run one at a time in the order extraction, transcription,
\* formatting, optional translation, write, optional muxing; when extraction or
\* transcription raises, no later stage runs, no subtitle file is written and the
\* task ends in error
C29_StagesRunInOrder ==
    [][/\ StagesInOrder'
       /\ \A t \in TaskIds :
            \/ loc'[t].stages = loc[t].stages
            \/ \E stage \in {"extract_audio", "transcribe_audio", "generate_srt_content",
                             "translate_srt_content", "write_srt", "embed_soft_subtitles"} :
                 loc'[t].stages = Append(loc[t].stages, stage)
            \/ (pc'[t] = "done" /\ loc'[t].stages = <<>>)]_vars

\* transcription raised and the task has ended in error
C29_Witness ==
    \E t \in Records :
        /\ pc[t] = "finally"
        /\ loc[t].exc = "transcription error"
        /\ loc[t].stages = <<"extract_audio", "transcribe_audio">>
        /\ StatusOf(t) = "error"

Embedded(t) ==
    /\ loc[t].stages # <<>>
    /\ loc[t].stages[Len(loc[t].stages)] = "embed_soft_subtitles"

\* C31: embed_soft_subtitles runs the primary strategy first and the alternate strategy
\* at most once, exactly when the primary one failed; it raises exactly when both
\* failed, and returns the output path when either succeeded
C31_AlternateOnceAfterPrimaryFailed ==
    \A t \in TaskIds :
        IF ~Embedded(t) THEN loc[t].mux_runs = <<>>
        ELSE LET runs == loc[t].mux_runs
             IN /\ Len(runs) \in {1, 2}
                /\ runs[1].strategy = "primary"
                /\ Len(runs) = 2 <=> ~runs[1].ok
                /\ Len(runs) = 2 => runs[2].strategy = "alternate"
                /\ loc[t].mux = "failed" <=> \A k \in 1..Len(runs) : ~runs[k].ok
                /\ loc[t].mux = "failed" => loc[t].video_out = NoPath
                /\ loc[t].mux # "failed"
                   => /\ loc[t].mux = runs[Len(runs)].strategy
                      /\ runs[Len(runs)].ok
                      /\ loc[t].video_out = MuxPath(loc[t].input)
                      /\ exists(loc[t].video_out)

\* the alternate strategy succeeded after the primary one had failed
C31_Witness ==
    \E t \in TaskIds :
        /\ Embedded(t)
        /\ loc[t].mux = "alternate"
        /\ loc[t].mux_runs = <<[strategy |-> "primary", ok |-> FALSE],
                               [strategy |-> "alternate", ok |-> TRUE]>>

\* ------------------------------------------------------------------- C32
\* C32: whenever embed_soft_subtitles returns an output path, the output was produced
\* from the source video and the generated subtitle file, with the primary strategy
\* as well as with the alternate one
C32_OutputMuxedFromVideoAndSubtitles ==
    \A t \in TaskIds :
        (Embedded(t) /\ loc[t].mux # "failed")
        => loc[t].muxed_from = {loc[t].input, loc[t].srt}

\* ------------------------------------------------------------------- C33
\* the uploaded file of job j, which is the job's from the moment upload_video wrote it
\* (a YouTube job has no file before its own download)
OwnsFile(j, p) ==
    /\ sweep.jobs[j].kind = "upload"
    /\ p = UploadPath(j, sweep.jobs[j].filename)

\* C33: the cleanup of a finishing task, downloader.cleanup() included, removes no file
\* of another task that has not finished
C33_CleanupSparesOtherTasks ==
    [][\A p \in (DOMAIN sweep.files) \ (DOMAIN sweep'.files) :
          \A j \in 1..Len(sweep.jobs) : sweep'.state[j] = "waiting" => ~OwnsFile(j, p)]_vars

\* a task has finished and its own file is gone, while the file of a waiting task is there
C33_Witness ==
    \E i, j \in 1..Len(sweep.jobs) :
        /\ sweep.state[i] = "done" /\ sweep.state[j] = "waiting"
        /\ sweep.jobs[i].kind = "upload" /\ sweep.jobs[j].kind = "upload"
        /\ UploadPath(i, sweep.jobs[i].filename) \notin DOMAIN sweep.files
        /\ UploadPath(j, sweep.jobs[j].filename) \in DOMAIN sweep.files

\* ------------------------------------------------------------------- C34
\* C34: when download_video starts the worker of an attempt, no worker of an earlier
\* attempt is alive: at most one worker of a call is alive at any time
C34_OneWorkerAlive ==
    \A t \in TaskIds : loc[t].alive <= 1

\* ------------------------------------------------------------------- C35
\* C35: a result download_video returns either reports success, names a file that
\* exists with a non-zero size and has no error, or reports failure, has neither
\* file_path nor title and holds a failure reason
C35_ResultIsWellFormed ==
    \A t \in TaskIds :
        pc[t] = "yt_check"
        => \A r \in {loc[t].result} :
              /\ r # NoResult
              /\ IF r.success
                 THEN /\ r.file_path # NoPath
                      /\ exists(r.file_path)
                      /\ fs[r.file_path] > 0
                      /\ r.error = "None"
                 ELSE /\ r.file_path = NoPath
                      /\ r.title = "None"
                      /\ r.error # "None"
                      /\ r.error = loc[t].reasons[Len(loc[t].reasons)]

\* download_video has returned a success after an attempt that failed
C35_Witness ==
    \E t \in TaskIds :
        /\ pc[t] = "yt_check"
        /\ loc[t].result.success
        /\ loc[t].workers = 2
        /\ exists(loc[t].result.file_path)

\* ------------------------------------------------------------------- C36
\* a numeral as float() reads it: digits, with whitespace around them allowed
Numeric(x) == x.type \in {"int", "float"} \/ (x.type = "str" /\ isdigit(strip(x.v)))

\* C36: safe_progress_hook raises for no progress dictionary, and after it has returned
\* each of the three byte counts that was present is a number, zero where the value
\* given was None or not numeric
C36_HookCoercesEveryCount ==
    hook.pc = "returned"
    => /\ hook.raised = "None"
       /\ \A k \in 1..Len(NumericKeys) :
            \A key \in {NumericKeys[k]} \cap DOMAIN hook.given :
               /\ key \in DOMAIN hook.d
               /\ hook.d[key].type \in {"int", "float"}
               /\ ~Numeric(hook.given[key]) => hook.d[key].v = 0

\* ------------------------------------------------------------------- C37
\* the URLs whose download_url result starts with the failure mark: the result of a
\* URL names it as its third word
FailedUrls == {cli.results[k][3] : k \in {n \in 1..Len(cli.results) : startswith(cli.results[n], "FAILED")}}

\* C37: in both modes the list written to failed_urls.txt and the failure count of the
\* summary are those of exactly the URLs whose download failed
C37_FailedListNamesFailedUrls ==
    cli.pc = "done"
    => /\ {cli.failed_file[k] : k \in 1..Len(cli.failed_file)} = FailedUrls
       /\ Len(cli.failed_file) = Cardinality(FailedUrls)
       /\ cli.summary.failed = Cardinality(FailedUrls)

\* ------------------------------------------------------------------- C38
\* C38: the poll that finds the uploaded task in status error is the last one:
\* process_video_gradio returns with a failure report that carries the server's message
C38_ErrorStopsPolling ==
    [][(client.pc = "polling" /\ client.record.status = "error"
          /\ client'.poll_count = client.poll_count + 1)
       => (client'.pc = "returned"
           /\ client'.report = "Processing failed: " \o client.record.message)]_vars

====
